---- MODULE Spec2Model ----
(***************************************************************************)
(* Model of scripts/plot_rag_retriever.py: the incremental chapter index   *)
(* (build_index), its sidecar metadata files, and the query cache.         *)
(*                                                                         *)
(* Text is modelled as sequences of one-character strings.  The module is  *)
(* ASCII, so two CJK characters the code matches on are written with       *)
(* stand-ins that keep their code-point order (both sort after every ASCII *)
(* letter, U+7AE0 before U+7B2C):  "y" is U+7AE0 and "z" is U+7B2C.        *)
(***************************************************************************)
EXTENDS Integers, Sequences, FiniteSets, TLC

VARIABLES
    chapters,   \* 03_manuscript/*.md : file name -> [exists, mtime, text]
    registry,   \* names held by 00_memory/character_tracker.md
    index,      \* 00_memory/retrieval/story_index.json (content on disk)
    sidecars,   \* 00_memory/retrieval/chapter_meta/<slug>.meta.json
    built,      \* history: chapters and registry as of the last completed build
    fresh,      \* history: story_index.json is exactly what the last build wrote
    pure,       \* history: no foreign snapshot was ever put in place
    restamped,  \* history: a write gave a chapter the mtime it was indexed with
                \* but another text
    edits,      \* number of external edits so far (bounded by MaxEdits)
    last,       \* history: what the last operation was and what it reported
    cache,      \* 00_memory/retrieval/query_cache.json: its entries, in file order
    cache_form, \* what kind of JSON value query_cache.json holds
    queries,    \* number of query commands so far (bounded by MaxQueries)
    lastq,      \* history: the last query command and the one before it
    running,    \* query commands under way at the same time: where each stands
                \* between loading the cache file and overwriting it
    flow,       \* novel_flow_executor.py: the chapter files, the gate artifacts
                \* and the report of the last continue-write
    passages,   \* history: the chapter text last split into passages, and
                \* the passages
    entity_chapter_map,
                \* 00_memory/retrieval/entity_chapter_map.json: name -> the
                \* chapter files listed for it
    snippets    \* history: the tracker file and the terms last scanned for
                \* relation snippets, and the snippets

vars ==
    <<chapters, registry, index, sidecars, built, fresh, pure, restamped, edits, last,
      cache, cache_form, queries, lastq, running, flow, passages, entity_chapter_map, snippets>>

-----------------------------------------------------------------------------
(* Bounds of the model *)

MaxTime == 2        \* modification times range over 1..MaxTime
MaxEdits == 2       \* external edits (files, registry, snapshot) per behaviour
MaxQueries == 2     \* query commands per behaviour
MaxQueryEdits == 1  \* external edits per behaviour that also runs queries
Now == 1            \* the wall-clock second in which the queries run

-----------------------------------------------------------------------------
(* Characters and strings *)

DI == "z"           \* U+7B2C, the character before a chapter number
ZHANG == "y"        \* U+7AE0, the character after a chapter number

Digits == <<"0", "1", "2", "3", "4", "5", "6", "7", "8", "9">>

\* The characters the model uses, in code-point order (Python compares
\* strings by code point).
Alphabet ==
    <<" ", "-", ".">> \o Digits \o <<"A", "B", "C", "_", "a", "b", "c", "d", "m", "x", ZHANG, DI>>

\* ord(c), up to the order it induces
OrdTable ==
    [c \in { Alphabet[i] : i \in 1..Len(Alphabet) } |->
        CHOOSE i \in 1..Len(Alphabet) : Alphabet[i] = c]

Ord(c) == OrdTable[c]

IsDigit(c) == \E i \in 1..Len(Digits) : Digits[i] = c

DigitVal(c) == (CHOOSE i \in 1..Len(Digits) : Digits[i] = c) - 1

RECURSIVE LexLess(_, _)
\* s < t for Python strings
LexLess(s, t) ==
    IF t = <<>> THEN FALSE
    ELSE IF s = <<>> THEN TRUE
    ELSE IF Head(s) # Head(t) THEN Ord(Head(s)) < Ord(Head(t))
    ELSE LexLess(Tail(s), Tail(t))

\* `needle in text` for Python strings
Contains(needle, text) ==
    \E i \in 0..(Len(text) - Len(needle)) :
        \A k \in 1..Len(needle) : text[i + k] = needle[k]

RECURSIVE Join(_, _)
\* sep.join(list)
Join(list, sep) ==
    IF list = <<>> THEN <<>>
    ELSE IF Len(list) = 1 THEN list[1]
    ELSE list[1] \o <<sep>> \o Join(Tail(list), sep)

RECURSIVE SortedSeq(_)
\* sorted(set of strings)
SortedSeq(S) ==
    IF S = {} THEN <<>>
    ELSE LET m == CHOOSE x \in S : \A y \in S \ {x} : LexLess(x, y)
         IN <<m>> \o SortedSeq(S \ {m})

\* hashlib.sha1(raw).hexdigest()[:16], a non-empty string that identifies raw
\* (the digest is modelled as collision-free: it is raw behind a marker).
Sha1(raw) == <<"#">> \o raw

EmptyStr == <<>>

-----------------------------------------------------------------------------
(* File names *)

MdSuffix == <<".", "m", "d">>

ChapterFiles ==
    { <<DI, "2", ZHANG>> \o MdSuffix,
      <<"a", " ", "b">> \o MdSuffix,
      <<"a", "-", "b">> \o MdSuffix }

\* Path.stem of a *.md file name
Stem(name) == SubSeq(name, 1, Len(name) - Len(MdSuffix))

RECURSIVE DigitsValue(_, _)
\* int() of a run of digits, acc is the value read so far
DigitsValue(s, acc) ==
    IF s = <<>> THEN acc ELSE DigitsValue(Tail(s), acc * 10 + DigitVal(Head(s)))

\* re.search(DI (\d+) ZHANG, filename): the leftmost match, 0 when none
parse_chapter_no(filename) ==
    LET Match(i, j) ==
            /\ filename[i] = DI
            /\ j > i + 1
            /\ filename[j] = ZHANG
            /\ \A k \in (i + 1)..(j - 1) : IsDigit(filename[k])
        Starts == { i \in 1..Len(filename) : \E j \in 1..Len(filename) : Match(i, j) }
    IN IF Starts = {} THEN 0
       ELSE LET i == CHOOSE a \in Starts : \A b \in Starts : a <= b
                j == CHOOSE b \in 1..Len(filename) : Match(i, b)
            IN DigitsValue(SubSeq(filename, i + 1, j - 1), 0)

\* the characters slugify keeps: [0-9A-Za-z一-鿿_-]
SlugKeeps(c) == c \notin {" ", "."}

RECURSIVE SlugSub(_, _)
\* re.sub(r"[^0-9A-Za-z一-鿿_-]+", "-", text): every run of other
\* characters becomes one "-"; inRun says the previous character was replaced
SlugSub(text, inRun) ==
    IF text = <<>> THEN <<>>
    ELSE IF SlugKeeps(Head(text)) THEN <<Head(text)>> \o SlugSub(Tail(text), FALSE)
    ELSE IF inRun THEN SlugSub(Tail(text), TRUE)
    ELSE <<"-">> \o SlugSub(Tail(text), TRUE)

RECURSIVE StripDash(_)
\* str.strip("-")
StripDash(s) ==
    IF s = <<>> THEN s
    ELSE IF Head(s) = "-" THEN StripDash(Tail(s))
    ELSE IF s[Len(s)] = "-" THEN StripDash(SubSeq(s, 1, Len(s) - 1))
    ELSE s

slugify(text) ==
    LET s == StripDash(SlugSub(text, FALSE))
    IN IF s = <<>> THEN <<"c", "h", "a", "p", "t", "e", "r">> ELSE s

\* chapter_meta/<slug>.meta.json, named by its slug
MetaPath(name) == slugify(Stem(name))

Slugs == { slugify(Stem(f)) : f \in ChapterFiles }

-----------------------------------------------------------------------------
(* Chapter texts and entity names *)

AllNames == { <<"A", "B">>, <<"B", "C">> }

Texts == { <<"x", "x">>, <<"A", "B", "C">> }

NoChapter == [exists |-> FALSE, mtime |-> 0, text |-> <<>>]

Present == { f \in ChapterFiles : chapters[f].exists }

\* load_character_names: the registry's names, deduplicated and sorted
load_character_names(reg) == SortedSeq(reg)

\* [n for n in names if n in text]
HitEntities(names, text) == SelectSeq(names, LAMBDA n : Contains(n, text))

\* hashlib.sha1("|".join(names))[:16]
character_sig(names) == Sha1(Join(names, "|"))

-----------------------------------------------------------------------------
(* Text normalisation and tokens.  The texts and queries of the model hold no *)
(* CJK characters, so the n-gram loop of tokenize adds nothing for them, and  *)
(* the event, location and foreshadowing lists of a document, which match CJK *)
(* words only, are empty and left out of the documents.                       *)

SummaryChars == 260
KeywordTopN == 20
MetaSummaryChars == 220
MetaKeywordTopN == 18

\* the line feed
NL == "\n"

IsSpace(c) == c \in {" ", NL}

IsAsciiLetter(c) == c \in {"A", "B", "C", "a", "b", "c", "d", "m", "x"}

\* str.lower() of one character
Lower(c) == IF c = "A" THEN "a" ELSE IF c = "B" THEN "b" ELSE IF c = "C" THEN "c" ELSE c

\* s[:n]
Prefix(s, n) == SubSeq(s, 1, IF Len(s) < n THEN Len(s) ELSE n)

\* the index of the first character of text that is whitespace (space = TRUE)
\* or is not (space = FALSE); Len(text) + 1 when there is none
FirstSpace(text, space) ==
    IF \E i \in 1..Len(text) : IsSpace(text[i]) = space
    THEN CHOOSE i \in 1..Len(text) :
             /\ IsSpace(text[i]) = space
             /\ \A j \in 1..(i - 1) : IsSpace(text[j]) # space
    ELSE Len(text) + 1

\* text[i:]
From(text, i) == SubSeq(text, i, Len(text))

RECURSIVE CollapseSpaces(_, _)
\* re.sub(r"\s+", " ", text): every run of whitespace becomes one space;
\* inRun says that the text follows whitespace already replaced
CollapseSpaces(text, inRun) ==
    IF FirstSpace(text, TRUE) > Len(text) THEN text
    ELSE LET word == SubSeq(text, 1, FirstSpace(text, TRUE) - 1)
             tail == From(text, FirstSpace(text, TRUE))
         IN word \o (IF inRun /\ word = <<>> THEN <<>> ELSE <<" ">>)
                 \o CollapseSpaces(From(tail, FirstSpace(tail, FALSE)), FALSE)

RECURSIVE Strip(_)
\* str.strip()
Strip(s) ==
    IF s = <<>> THEN s
    ELSE IF IsSpace(Head(s)) THEN Strip(Tail(s))
    ELSE IF IsSpace(s[Len(s)]) THEN Strip(SubSeq(s, 1, Len(s) - 1))
    ELSE s

normalize_text(text) == Strip(CollapseSpaces(text, FALSE))

normalize_query(query) == normalize_text(query)

\* the index of the first character of text that is an ASCII letter (letter =
\* TRUE) or is not (letter = FALSE); Len(text) + 1 when there is none
FirstLetter(text, letter) ==
    IF \E i \in 1..Len(text) : IsAsciiLetter(text[i]) = letter
    THEN CHOOSE i \in 1..Len(text) :
             /\ IsAsciiLetter(text[i]) = letter
             /\ \A j \in 1..(i - 1) : IsAsciiLetter(text[j]) # letter
    ELSE Len(text) + 1

RECURSIVE LetterRuns(_, _)
\* re.findall(r"[A-Za-z]{3,}", text), lower-cased: the maximal runs of letters
\* that are at least three long; cur is the run being read
LetterRuns(text, cur) ==
    LET run == cur \o [k \in 1..(FirstLetter(text, FALSE) - 1) |-> Lower(text[k])]
        done == IF Len(run) >= 3 THEN <<run>> ELSE <<>>
        tail == From(text, FirstLetter(text, FALSE))
    IN IF tail = <<>> THEN done
       ELSE done \o LetterRuns(From(tail, FirstLetter(tail, TRUE)), <<>>)

tokenize(text) == LetterRuns(text, <<>>)

\* how often x occurs in the list
Count(list, x) == Cardinality({ i \in 1..Len(list) : list[i] = x })

RECURSIVE MostCommonFrom(_, _)
\* the distinct items of `left` in the order Counter.most_common gives them:
\* by falling count in `all`, first seen first among equal counts
MostCommonFrom(left, all) ==
    IF left = {} THEN <<>>
    ELSE LET First(x) == CHOOSE i \in 1..Len(all) :
                             all[i] = x /\ \A j \in 1..(i - 1) : all[j] # x
             m == CHOOSE x \in left : \A y \in left \ {x} :
                      \/ Count(all, x) > Count(all, y)
                      \/ Count(all, x) = Count(all, y) /\ First(x) < First(y)
         IN <<m>> \o MostCommonFrom(left \ {m}, all)

\* [k for k, _ in Counter(list).most_common(n)]
MostCommon(list, n) == Prefix(MostCommonFrom({ list[i] : i \in 1..Len(list) }, list), n)

-----------------------------------------------------------------------------
(* story_index.json and the sidecar files *)

NoIndex ==
    [exists |-> FALSE, kind |-> "none", has_sig |-> FALSE, character_sig |-> EmptyStr,
     docs |-> <<>>, chapter_count |-> 0, reused_docs |-> 0, rebuilt_docs |-> 0,
     cleaned_meta_files |-> 0]

NoSidecar ==
    [exists |-> FALSE, chapter_file |-> <<>>, chapter_no |-> 0, mtime |-> 0,
     summary |-> <<>>, entities |-> <<>>, keywords |-> <<>>]

\* parse_chapter_no and the sidecar path of each chapter file, tabulated
ChapterNo == [f \in ChapterFiles |-> parse_chapter_no(f)]

MetaPathOf == [f \in ChapterFiles |-> MetaPath(f)]

\* (parse_chapter_no(p.name), p.name) < (parse_chapter_no(q.name), q.name)
PathKeyLess(p, q) ==
    \/ ChapterNo[p] < ChapterNo[q]
    \/ ChapterNo[p] = ChapterNo[q] /\ LexLess(p, q)

RECURSIVE SortedPaths(_)
\* sorted(manuscript_dir.glob("*.md"), key=(parse_chapter_no, name))
SortedPaths(S) ==
    IF S = {} THEN <<>>
    ELSE LET m == CHOOSE x \in S : \A y \in S \ {x} : PathKeyLess(x, y)
         IN <<m>> \o SortedPaths(S \ {m})

\* the sort key compared the other way round
DocKeyLess_descending(d, e) ==
    \/ e.chapter_no < d.chapter_no
    \/ e.chapter_no = d.chapter_no /\ LexLess(e.chapter_file, d.chapter_file)

\* (int(d["chapter_no"]), str(d["chapter_file"])) of one document < that of another
DocKeyLess(d, e) ==
    \/ d.chapter_no < e.chapter_no
    \/ d.chapter_no = e.chapter_no /\ LexLess(d.chapter_file, e.chapter_file)

\* a sort that loses the document it is given first
SortDocs_without_first(docs) == IF docs = <<>> THEN <<>> ELSE Tail(docs)

RECURSIVE SortDocs(_)
\* docs.sort(key=(chapter_no, chapter_file)); the sort is stable, so among
\* equal keys the earliest document comes first
SortDocs(docs) ==
    IF docs = <<>> THEN <<>>
    ELSE LET i == CHOOSE a \in 1..Len(docs) :
                     /\ \A b \in 1..Len(docs) : ~DocKeyLess(docs[b], docs[a])
                     /\ \A b \in 1..(a - 1) : DocKeyLess(docs[a], docs[b])
             rest == [k \in 1..(Len(docs) - 1) |-> IF k < i THEN docs[k] ELSE docs[k + 1]]
         IN <<docs[i]>> \o SortDocs(rest)

\* old["character_sig"] as build_index reads it: "" when the key is absent
OldCharacterSig(idx) == IF idx.has_sig THEN idx.character_sig ELSE EmptyStr

\* The try block of build_index: what it leaves in old_character_sig and
\* existing_docs.  json.loads raises on an unparsable file, old.get raises on a
\* value that is no object, d.get raises on an entry that is no object; every
\* exception empties existing_docs and keeps what old_character_sig had by then.
ReadPrior(idx, incremental) ==
    IF ~incremental \/ ~idx.exists \/ idx.kind # "object"
    THEN [old_character_sig |-> EmptyStr, existing_docs |-> <<>>]
    ELSE IF \E k \in 1..Len(idx.docs) : ~idx.docs[k].dict
    THEN [old_character_sig |-> OldCharacterSig(idx), existing_docs |-> <<>>]
    ELSE [old_character_sig |-> OldCharacterSig(idx),
          existing_docs |-> SelectSeq(idx.docs, LAMBDA d : d.chapter_file # EmptyStr)]

\* existing_docs.get(name): the last entry stored under that name
HasCached(existing, name) == \E k \in 1..Len(existing) : existing[k].chapter_file = name

Cached(existing, name) ==
    existing[CHOOSE k \in 1..Len(existing) :
                /\ existing[k].chapter_file = name
                /\ \A j \in (k + 1)..Len(existing) : existing[j].chapter_file # name]

\* reuse_allowed with the comparison lost: reuse only without a prior signature
reuse_allowed_unsigned_only(old_character_sig, sig) == old_character_sig = EmptyStr

\* reuse_allowed with the signature ignored
reuse_allowed_always(old_character_sig, sig) == TRUE

\* the variant that reuses exactly when the registry signature has changed
reuse_allowed_when_changed(old_character_sig, sig) == old_character_sig # sig

\* reuse_allowed = (old_character_sig == character_sig) if old_character_sig else True
reuse_allowed(old_character_sig, sig) ==
    IF old_character_sig # EmptyStr THEN old_character_sig = sig ELSE TRUE

\* re.sub(r"\s+", " ", text).strip()[:260]
Summary(text) == Prefix(normalize_text(text), SummaryChars)

\* [k for k, _ in Counter(tokenize(text)).most_common(keyword_top_n)]
TopKeywords(text) == MostCommon(tokenize(text), KeywordTopN)

\* build_chapter_meta: the sidecar it writes for a chapter
ChapterMeta(name, names) ==
    [exists |-> TRUE, chapter_file |-> name, chapter_no |-> ChapterNo[name],
     mtime |-> chapters[name].mtime,
     summary |-> Prefix(normalize_text(chapters[name].text), MetaSummaryChars),
     keywords |-> MostCommon(tokenize(chapters[name].text), MetaKeywordTopN),
     entities |-> SortedSeq({ n \in AllNames : Contains(n, chapters[name].text)
                                               /\ \E k \in 1..Len(names) : names[k] = n })]

\* the document build_index makes for a chapter it rebuilds
NewDoc(name, names) ==
    [dict |-> TRUE, chapter_file |-> name, chapter_no |-> ChapterNo[name],
     mtime |-> chapters[name].mtime, mtime_ok |-> TRUE,
     summary |-> Summary(chapters[name].text),
     entities |-> HitEntities(names, chapters[name].text),
     keywords |-> TopKeywords(chapters[name].text),
     meta_file |-> MetaPathOf[name]]

\* the sidecar test that never finds a sidecar missing
SidecarMissing_never(doc, side) == FALSE

\* the sidecar test without the look at the disk
SidecarMissing_key_only(doc, side) == doc.meta_file = EmptyStr

\* `not meta_file or not Path(meta_file).exists()`
SidecarMissing(doc, side) ==
    \/ doc.meta_file = EmptyStr
    \/ doc.meta_file \notin Slugs
    \/ ~side[doc.meta_file].exists

\* the mtime test as "the entry is not newer than the file"
MtimeMatches_not_newer(cached, name) == cached.mtime <= chapters[name].mtime

\* float(cached.get("mtime", -1)) == mtime
MtimeMatches(cached, name) == cached.mtime = chapters[name].mtime

RECURSIVE BuildLoop(_, _, _, _, _)
\* the loop of build_index over the sorted chapter paths; acc carries docs,
\* the two counters, the sidecar files, and whether float() raised
BuildLoop(paths, names, existing, allowed, acc) ==
    IF paths = <<>> \/ acc.crashed THEN acc
    ELSE
      LET name == Head(paths)
          hit == allowed /\ HasCached(existing, name)
          cached == Cached(existing, name)
      IN IF hit /\ ~cached.mtime_ok
         THEN [acc EXCEPT !.crashed = TRUE]
         ELSE IF hit /\ MtimeMatches(cached, name)
         THEN LET regen == SidecarMissing(cached, acc.side)
                  doc == IF regen THEN [cached EXCEPT !.meta_file = MetaPathOf[name]]
                         ELSE cached
                  side == IF regen
                          THEN [acc.side EXCEPT ![MetaPathOf[name]] = ChapterMeta(name, names)]
                          ELSE acc.side
              IN BuildLoop(Tail(paths), names, existing, allowed,
                     [acc EXCEPT !.docs = Append(@, doc), !.reused_docs = @ + 1,
                                 !.side = side, !.reused_files = @ \cup {name}])
         ELSE BuildLoop(Tail(paths), names, existing, allowed,
                     [acc EXCEPT !.docs = Append(@, NewDoc(name, names)),
                                 !.rebuilt_docs = @ + 1,
                                 !.side = [acc.side EXCEPT
                                              ![MetaPathOf[name]] = ChapterMeta(name, names)],
                                 !.rebuilt_files = @ \cup {name}])

\* the sidecar files cleanup_stale_meta_files unlinks: those no document names
StaleMetaFiles(side, docs) ==
    { s \in Slugs : side[s].exists /\ ~\E k \in 1..Len(docs) : docs[k].meta_file = s }

cleanup_stale_meta_files(side, docs) ==
    [s \in Slugs |-> IF s \in StaleMetaFiles(side, docs) THEN NoSidecar ELSE side[s]]

\* entity_map.setdefault(n, []).append(chapter_file)
Listed(map, n, chapter_file) ==
    [e \in DOMAIN map \cup {n} |->
        IF e = n THEN (IF n \in DOMAIN map THEN Append(map[n], chapter_file)
                       ELSE <<chapter_file>>)
        ELSE map[e]]

RECURSIVE ListEntities(_, _, _)
\* for n in d.get("entities", []): the document is listed under each of its
\* entities
ListEntities(map, entities, chapter_file) ==
    IF entities = <<>> THEN map
    ELSE ListEntities(Listed(map, Head(entities), chapter_file), Tail(entities), chapter_file)

RECURSIVE ListDocs(_, _)
\* for d in docs, in the order of the sorted docs
ListDocs(map, docs) ==
    IF docs = <<>> THEN map
    ELSE ListDocs(ListEntities(map, Head(docs).entities, Head(docs).chapter_file), Tail(docs))

\* the reverse index that starts from no key
entity_map_unseeded(names, docs) == ListDocs(<<>>, docs)

\* build_index, lines 450-454: entity_map starts from an empty list for every
\* registry name
entity_map(names, docs) == ListDocs([n \in { names[k] : k \in 1..Len(names) } |-> <<>>], docs)

\* build_index(project_root, incremental): ok is FALSE when it raised; then
\* the snapshot is not written and the sidecars written so far stay.
build_index(incremental) ==
    LET names == load_character_names(registry)
        prior == ReadPrior(index, incremental)
        sig == character_sig(names)
        allowed == reuse_allowed(prior.old_character_sig, sig)
        loop == BuildLoop(SortedPaths(Present), names, prior.existing_docs, allowed,
                          [docs |-> <<>>, reused_docs |-> 0, rebuilt_docs |-> 0,
                           side |-> sidecars, crashed |-> FALSE,
                           reused_files |-> {}, rebuilt_files |-> {}])
        docs == SortDocs(loop.docs)
    IN IF loop.crashed
       THEN [ok |-> FALSE, index |-> index, side |-> loop.side,
             entity_map |-> entity_chapter_map,
             reused_files |-> {}, rebuilt_files |-> {}]
       ELSE [ok |-> TRUE,
             index |-> [exists |-> TRUE, kind |-> "object", has_sig |-> TRUE,
                        character_sig |-> sig, docs |-> docs,
                        chapter_count |-> Len(docs),
                        reused_docs |-> loop.reused_docs,
                        rebuilt_docs |-> loop.rebuilt_docs,
                        cleaned_meta_files |->
                            Cardinality(StaleMetaFiles(loop.side, docs))],
             side |-> cleanup_stale_meta_files(loop.side, docs),
             entity_map |-> [exists |-> TRUE, lists |-> entity_map(names, docs)],
             reused_files |-> loop.reused_files,
             rebuilt_files |-> loop.rebuilt_files]

-----------------------------------------------------------------------------
(* The query command: trigger, index signature, cache key, retrieval *)

DefaultTopK == 4
DefaultPassagesPerChapter == 2
DefaultCandidateK == 12
DefaultPassageMaxChars == 220
LongQueryChars == 18
PassageChars == 360
max_entries == 200

\* stand-ins for the CJK characters of the two vocabulary words the model keeps
JUE == "{"          \* U+51B3
ZHAN == "}"         \* U+6218
RI == "["           \* U+65E5
CHANG == "]"        \* U+5E38

\* The vocabularies, cut down to the words the model's characters can spell.
TRIGGER_KEYWORDS == { <<JUE, ZHAN>> }

LIGHT_SCENE_KEYWORDS == { <<RI, CHANG>> }

RECURSIVE IntStr(_)
\* str(n) for n >= 0
IntStr(n) == IF n < 10 THEN <<Digits[n + 1]>> ELSE IntStr(n \div 10) \o <<Digits[(n % 10) + 1]>>

\* a trigger check that measures the query as typed, not as normalized
should_trigger_raw_length(query, names) ==
    \/ HitEntities(names, normalize_query(query)) # <<>>
    \/ \E k \in TRIGGER_KEYWORDS : Contains(k, normalize_query(query))
    \/ /\ Len(query) >= LongQueryChars
       /\ \A k \in LIGHT_SCENE_KEYWORDS : ~Contains(k, normalize_query(query))

\* analyze_query_trigger(query, names)["should_trigger"]
should_trigger(query, names) ==
    LET q == normalize_query(query)
        entities == HitEntities(names, q)
        keyword_hits == { k \in TRIGGER_KEYWORDS : Contains(k, q) }
        light_hits == { k \in LIGHT_SCENE_KEYWORDS : Contains(k, q) }
        long_query == Len(q) >= LongQueryChars
    IN entities # <<>> \/ keyword_hits # {} \/ (long_query /\ light_hits = {})

\* the reason list of analyze_query_trigger, each message written as a tag
TriggerReason(entities, keyword_hits, light_hits, long_query) ==
    LET reason ==
            (IF entities # <<>> THEN <<"entities">> ELSE <<>>)
            \o (IF keyword_hits # {} THEN <<"keywords">> ELSE <<>>)
            \o (IF long_query /\ light_hits = {} THEN <<"long">> ELSE <<>>)
            \o (IF light_hits # {} /\ entities = <<>> /\ keyword_hits = {}
                THEN <<"light_only">> ELSE <<>>)
    IN IF reason = <<>> THEN <<"none">> ELSE reason

\* analyze_query_trigger(query, names)
analyze_query_trigger(query, names) ==
    [should_trigger |-> should_trigger(query, names),
     entities |-> HitEntities(names, normalize_query(query)),
     keyword_hits |-> { k \in TRIGGER_KEYWORDS : Contains(k, normalize_query(query)) },
     light_hits |-> { k \in LIGHT_SCENE_KEYWORDS : Contains(k, normalize_query(query)) },
     query_length |-> Len(normalize_query(query)),
     reason |-> TriggerReason(
                    HitEntities(names, normalize_query(query)),
                    { k \in TRIGGER_KEYWORDS : Contains(k, normalize_query(query)) },
                    { k \in LIGHT_SCENE_KEYWORDS : Contains(k, normalize_query(query)) },
                    Len(normalize_query(query)) >= LongQueryChars)]

\* f"{d['chapter_file']}:{d['mtime']}"
DocStamp(d) ==
    d.chapter_file \o <<":">> \o (IF d.mtime_ok THEN IntStr(d.mtime) ELSE <<"?">>)

\* index_signature(index) = f"{len(docs)}-{sha1('|'.join(stamps))[:16]}"
index_signature(idx) ==
    IntStr(Len(idx.docs)) \o <<"-">>
        \o Sha1(Join([k \in 1..Len(idx.docs) |-> DocStamp(idx.docs[k])], "|"))

\* make_cache_key(query, top_k, per_chapter, passage_max_chars, idx_sig)
make_cache_key(query, top_k, per_chapter, passage_max_chars, idx_sig) ==
    Sha1(Join(<<normalize_query(query), IntStr(top_k), IntStr(per_chapter),
                IntStr(passage_max_chars), idx_sig>>, "|"))

\* the key main() looks up: the signature is extended by the candidate pool size
CacheKey(a, idx) ==
    make_cache_key(a.query, a.top_k, a.per_chapter, a.passage_max_chars,
                   index_signature(idx) \o <<"|", "c", "a", "n", "d", "=">>
                       \o IntStr(a.candidate_k))

SetOf(q) == { q[k] : k \in 1..Len(q) }

\* a ranking that keeps the documents in the order it was given
SortByScore_unsorted(list) == list

RECURSIVE SortByScore(_)
\* list.sort(key=score, reverse=True): falling score, the sort is stable
SortByScore(list) ==
    IF list = <<>> THEN <<>>
    ELSE LET i == CHOOSE a \in 1..Len(list) :
                     /\ \A b \in 1..Len(list) : list[b].s <= list[a].s
                     /\ \A b \in 1..(a - 1) : list[b].s < list[a].s
             rest == [k \in 1..(Len(list) - 1) |-> IF k < i THEN list[k] ELSE list[k + 1]]
         IN <<list[i]>> \o SortByScore(rest)

\* a selection that takes the first k entries whatever their score
PositiveOrFirst_unfiltered(scored, k) == Prefix(scored, k)

\* a selection that forgets the cut at k
PositiveOrFirst_uncut(scored, k) == scored

\* [x for x in scored if x.s > 0][:k] or, when that is empty, scored[:min(k, len)]
PositiveOrFirst(scored, k) ==
    LET positive == SelectSeq(scored, LAMBDA x : x.s > 0)
    IN IF positive # <<>> THEN Prefix(positive, k) ELSE Prefix(scored, k)

\* score_doc_coarse, times 10: 4 per shared entity, 1 per shared keyword
\* (no document of the model has events or locations)
score_doc_coarse(doc, query_token_set, query_entities) ==
    40 * Cardinality(SetOf(query_entities) \cap SetOf(doc.entities))
    + 10 * Cardinality(query_token_set \cap SetOf(doc.keywords))

\* a fine score that leaves the shared entities out
score_doc_fine_without_entities(doc, query_token_set, query_entities, max_no) ==
    LET unit == IF max_no > 0 THEN max_no ELSE 1
    IN (10 * Cardinality(query_token_set \cap SetOf(doc.keywords))
        + 6 * Cardinality(query_token_set \cap SetOf(tokenize(doc.summary)))) * unit
       + (IF max_no > 0 THEN 3 * doc.chapter_no ELSE 0)

\* score_doc_fine, times 10 * unit, where unit is max_no or 1 when max_no is
\* 0: 3 per shared entity, 1 per shared keyword, 0.6 per token shared with
\* the summary, 0.3 * chapter_no / max_no (no document of the model has
\* events or a conflict level other than "unknown")
score_doc_fine(doc, query_token_set, query_entities, max_no) ==
    LET unit == IF max_no > 0 THEN max_no ELSE 1
    IN (30 * Cardinality(SetOf(query_entities) \cap SetOf(doc.entities))
        + 10 * Cardinality(query_token_set \cap SetOf(doc.keywords))
        + 6 * Cardinality(query_token_set \cap SetOf(tokenize(doc.summary)))) * unit
       + (IF max_no > 0 THEN 3 * doc.chapter_no ELSE 0)

\* the number of line feeds in a run of whitespace
LineFeeds(ws) == Len(SelectSeq(ws, LAMBDA c : c = NL))

RECURSIVE SplitParagraphs(_, _)
\* re.split(r"\n\s*\n+", text): a maximal run of whitespace with two line
\* feeds or more separates two paragraphs (the whitespace of the run that the
\* pattern leaves outside the match is at a paragraph's edge and is stripped
\* next); cur is the paragraph being read
SplitParagraphs(text, cur) ==
    IF FirstSpace(text, TRUE) > Len(text) THEN <<cur \o text>>
    ELSE LET word == SubSeq(text, 1, FirstSpace(text, TRUE) - 1)
             tail == From(text, FirstSpace(text, TRUE))
             ws == SubSeq(tail, 1, FirstSpace(tail, FALSE) - 1)
             rest == From(tail, FirstSpace(tail, FALSE))
         IN IF LineFeeds(ws) >= 2
            THEN <<cur \o word>> \o SplitParagraphs(rest, <<>>)
            ELSE SplitParagraphs(rest, cur \o word \o ws)

\* [p.strip() for p in parts if p.strip()]
StrippedParts(parts) ==
    SelectSeq([k \in 1..Len(parts) |-> Strip(parts[k])], LAMBDA p : p # <<>>)

\* the characters that end a sentence
IsSentenceEnd(c) == c \in {"!", "?"}

RECURSIVE SplitSentences(_)
\* re.split(r"(?<=[。！？!?])", para): the text is cut after every character
\* that ends a sentence
SplitSentences(text) ==
    IF \A i \in 1..Len(text) : ~IsSentenceEnd(text[i]) THEN <<text>>
    ELSE LET i == CHOOSE i \in 1..Len(text) :
                      /\ IsSentenceEnd(text[i])
                      /\ \A j \in 1..(i - 1) : ~IsSentenceEnd(text[j])
         IN <<SubSeq(text, 1, i)>> \o SplitSentences(From(text, i + 1))

RECURSIVE PackPieces(_, _, _)
\* split_passages, lines 188-197: the sentences are added to buf while they
\* fit; a sentence that does not fit starts the next buf
PackPieces(pieces, buf, max_chars) ==
    IF pieces = <<>> THEN (IF buf # <<>> THEN <<buf>> ELSE <<>>)
    ELSE IF Len(buf) + Len(Head(pieces)) <= max_chars
    THEN PackPieces(Tail(pieces), buf \o Head(pieces), max_chars)
    ELSE (IF buf # <<>> THEN <<buf>> ELSE <<>>) \o PackPieces(Tail(pieces), Head(pieces), max_chars)

\* the passages of one paragraph
ParagraphPassages(para, max_chars) ==
    IF Len(para) <= max_chars THEN <<para>>
    ELSE PackPieces(StrippedParts(SplitSentences(para)), <<>>, max_chars)

RECURSIVE PassagesOf(_, _)
PassagesOf(paragraphs, max_chars) ==
    IF paragraphs = <<>> THEN <<>>
    ELSE ParagraphPassages(Head(paragraphs), max_chars) \o PassagesOf(Tail(paragraphs), max_chars)

\* the paragraphs of split_passages, lines 177-179
Paragraphs(text) ==
    IF StrippedParts(SplitParagraphs(text, <<>>)) # <<>>
    THEN StrippedParts(SplitParagraphs(text, <<>>))
    ELSE <<normalize_text(text)>>

\* split_passages(text) with max_chars at its default
split_passages(text) == PassagesOf(Paragraphs(text), PassageChars)

\* score_passage: 3 per query entity in the passage, 1 per shared token
score_passage(passage, query_tokens, query_entities) ==
    3 * Len(HitEntities(query_entities, passage))
    + Cardinality(SetOf(query_tokens) \cap SetOf(tokenize(passage)))

\* a display that marks every passage with the ellipsis and cuts none
ShownText_uncut(passage, passage_max_chars) == passage \o <<".", ".", ".">>

\* the text top_passages shows for a passage
ShownText(passage, passage_max_chars) ==
    IF Len(passage) <= passage_max_chars THEN passage
    ELSE Strip(Prefix(passage, passage_max_chars)) \o <<".", ".", ".">>

\* top_passages, lines 289-298: the passages picked for a chapter text, each
\* with its score
SelectedPassages(text, query_tokens, query_entities, per_chapter) ==
    PositiveOrFirst(
        SortByScore([k \in 1..Len(split_passages(text)) |->
            [s |-> score_passage(split_passages(text)[k], query_tokens, query_entities),
             text |-> split_passages(text)[k]]]),
        per_chapter)

\* the passages shown for the picked ones
ShownPassages(selected, passage_max_chars) ==
    [k \in 1..Len(selected) |->
        [score |-> selected[k].s,
         text |-> ShownText(selected[k].text, passage_max_chars)]]

\* top_passages(chapter_path, ...) for a chapter file that exists
top_passages(text, query_tokens, query_entities, per_chapter, passage_max_chars) ==
    ShownPassages(SelectedPassages(text, query_tokens, query_entities, per_chapter),
                  passage_max_chars)

Max(S) == IF S = {} THEN 0 ELSE CHOOSE x \in S : \A y \in S : y <= x

RelationWindow == 2
RelationMaxHits == 8

RECURSIVE SkipChars(_, _)
\* what is left of s after its leading characters of the set
SkipChars(s, set) ==
    IF s # <<>> /\ Head(s) \in set THEN SkipChars(Tail(s), set) ELSE s

\* s without one leading colon
SkipColon(s) == IF s # <<>> /\ Head(s) = ":" THEN Tail(s) ELSE s

\* \s*:?-+:?\s* at the start of s: whether it matches, and what follows it
SeparatorCell(s) ==
    LET dashes == SkipColon(SkipChars(s, {" "}))
        rest == SkipChars(dashes, {"-"})
    IN [ok |-> Len(rest) < Len(dashes),
        rest |-> SkipChars(SkipColon(rest), {" "})]

RECURSIVE SeparatorCells(_, _)
\* the cells after the first bar; n is the number of cells read so far
SeparatorCells(s, n) ==
    LET cell == SeparatorCell(s)
    IN IF ~cell.ok THEN FALSE
       ELSE IF cell.rest = <<>> \/ cell.rest = <<"|">> THEN n + 1 >= 2
       ELSE IF Head(cell.rest) = "|" THEN SeparatorCells(Tail(cell.rest), n + 1)
       ELSE FALSE

\* re.fullmatch(r"\|\s*:?-+:?\s*(\|\s*:?-+:?\s*)+\|?", s): the separator
\* line of a markdown table of two columns or more
IsTableSeparator(s) == s # <<>> /\ Head(s) = "|" /\ SeparatorCells(Tail(s), 0)

RECURSIVE SplitLines(_)
\* str.splitlines()
SplitLines(text) ==
    IF text = <<>> THEN <<>>
    ELSE IF \A i \in 1..Len(text) : text[i] # NL THEN <<text>>
    ELSE LET i == CHOOSE i \in 1..Len(text) :
                      text[i] = NL /\ \A j \in 1..(i - 1) : text[j] # NL
         IN <<SubSeq(text, 1, i - 1)>> \o SplitLines(SubSeq(text, i + 1, Len(text)))

\* normalized_lines of a block, lines 157-163: its lines stripped, without the
\* table separators and the empty lines
NormalizedLines(block) ==
    SelectSeq([k \in 1..Len(SplitLines(block)) |-> Strip(SplitLines(block)[k])],
              LAMBDA ln : ln # <<>> /\ ~IsTableSeparator(ln))

\* hits.append(block): the block is returned as it was cut from the file
ReturnedBlock(block) == block

RECURSIVE RelationScan(_, _, _, _)
\* the loop of extract_relation_snippets over the lines from line i on; st
\* carries hits, used, seen_blocks and last_end (the last line of the latest
\* block kept)
RelationScan(lines, terms, i, st) ==
    IF i > Len(lines) \/ Len(st.hits) >= RelationMaxHits THEN st.hits
    ELSE IF ~(\E k \in 1..Len(terms) : Contains(terms[k], lines[i])) \/ i <= st.last_end
    THEN RelationScan(lines, terms, i + 1, st)
    ELSE LET start == IF i - RelationWindow < 1 THEN 1 ELSE i - RelationWindow
             end == IF i + RelationWindow > Len(lines) THEN Len(lines)
                    ELSE i + RelationWindow
             block == Strip(Join(SubSeq(lines, start, end), NL))
             norm_key == NormalizedLines(block)
         IN IF <<start, end>> \in st.used
            THEN RelationScan(lines, terms, i + 1, st)
            ELSE IF block # <<>> /\ norm_key # <<>> /\ norm_key \notin st.seen_blocks
            THEN RelationScan(lines, terms, i + 1,
                              [hits |-> Append(st.hits, ReturnedBlock(block)),
                               used |-> st.used \cup {<<start, end>>},
                               seen_blocks |-> st.seen_blocks \cup {norm_key},
                               last_end |-> end])
            ELSE RelationScan(lines, terms, i + 1,
                              [st EXCEPT !.used = @ \cup {<<start, end>>}])

\* extract_relation_snippets(character_tracker, terms)
extract_relation_snippets(tracker, terms) ==
    IF ~tracker.exists \/ terms = <<>> THEN <<>>
    ELSE RelationScan(tracker.lines, terms, 1,
                      [hits |-> <<>>, used |-> {}, seen_blocks |-> {}, last_end |-> 0])

\* character_tracker.md of the model's projects: one line per name, in the
\* order load_character_names returns
TrackerOf(reg) == [exists |-> reg # {}, lines |-> load_character_names(reg)]

\* retrieve, lines 558-566: the coarse pass
CoarseScored(docs, query_token_set, query_entities) ==
    SortByScore([k \in 1..Len(docs) |->
        [s |-> score_doc_coarse(docs[k], query_token_set, query_entities),
         d |-> docs[k]]])

\* retrieve, lines 568-572: the fine pass over the candidate pool
FineScored(candidate_pool, query_token_set, query_entities, max_no) ==
    SortByScore([k \in 1..Len(candidate_pool) |->
        [s |-> score_doc_fine(candidate_pool[k].d, query_token_set,
                              query_entities, max_no),
         d |-> candidate_pool[k].d]])

\* retrieve, lines 578-617: the result, from the two ranked lists
Retrieved(idx, a, query_tokens, query_entities, max_no, coarse_scored, candidate_pool, fine_scored, picked, readable) ==
    [ok |-> readable,
     query |-> a.query,
     query_entities |-> query_entities,
     index_signature |-> index_signature(idx),
     retrieved |->
         IF ~readable THEN <<>>
         ELSE [k \in 1..Len(picked) |->
                 [score |-> [num |-> picked[k].s,
                             den |-> 10 * (IF max_no > 0 THEN max_no ELSE 1)],
                  chapter_file |-> picked[k].d.chapter_file,
                  summary |-> picked[k].d.summary,
                  entities |-> picked[k].d.entities,
                  passages |-> top_passages(chapters[picked[k].d.chapter_file].text,
                                  query_tokens, query_entities,
                                  a.per_chapter, a.passage_max_chars)]],
     relation_snippets |->
         extract_relation_snippets(TrackerOf(registry), query_entities),
     docs_total |-> Len(idx.docs),
     candidate_pool |-> Len(candidate_pool),
     rerank_topk |-> Len(picked),
     \* history: the lists the two passes ranked and the passages picked
     coarse |-> [k \in 1..Len(coarse_scored) |->
                    [s |-> coarse_scored[k].s,
                     chapter_file |-> coarse_scored[k].d.chapter_file]],
     pool |-> [k \in 1..Len(candidate_pool) |-> candidate_pool[k].d.chapter_file],
     fine |-> [k \in 1..Len(fine_scored) |->
                  [s |-> fine_scored[k].s,
                   chapter_file |-> fine_scored[k].d.chapter_file]],
     picked |-> [k \in 1..Len(picked) |-> picked[k].d.chapter_file],
     selected |->
         IF ~readable THEN <<>>
         ELSE [k \in 1..Len(picked) |->
                 SelectedPassages(chapters[picked[k].d.chapter_file].text,
                                  query_tokens, query_entities, a.per_chapter)]]

\* a retrieval that fails when no document is picked
Readable_some(picked) ==
    /\ picked # <<>>
    /\ \A k \in 1..Len(picked) :
           /\ picked[k].d.chapter_file \in ChapterFiles
           /\ chapters[picked[k].d.chapter_file].exists

\* the documents picked have chapter files that can be read
Readable(picked) ==
    \A k \in 1..Len(picked) :
        /\ picked[k].d.chapter_file \in ChapterFiles
        /\ chapters[picked[k].d.chapter_file].exists

RetrievePicked(idx, a, query_tokens, query_entities, max_no, coarse_scored, candidate_pool, fine_scored, picked) ==
    Retrieved(idx, a, query_tokens, query_entities, max_no, coarse_scored,
              candidate_pool, fine_scored, picked, Readable(picked))

RetrieveFine(idx, a, query_tokens, query_entities, max_no, coarse_scored, candidate_pool, fine_scored) ==
    RetrievePicked(idx, a, query_tokens, query_entities, max_no, coarse_scored,
                   candidate_pool, fine_scored, PositiveOrFirst(fine_scored, a.top_k))

RetrievePool(idx, a, query_tokens, query_entities, max_no, coarse_scored, candidate_pool) ==
    RetrieveFine(idx, a, query_tokens, query_entities, max_no, coarse_scored,
                 candidate_pool,
                 FineScored(candidate_pool, SetOf(query_tokens), query_entities, max_no))

RetrieveCoarse(idx, a, query_tokens, query_entities, max_no, coarse_scored) ==
    RetrievePool(idx, a, query_tokens, query_entities, max_no, coarse_scored,
                 PositiveOrFirst(coarse_scored,
                     IF a.top_k > a.candidate_k THEN a.top_k ELSE a.candidate_k))

RetrieveQuery(idx, a, query_tokens, query_entities, max_no) ==
    RetrieveCoarse(idx, a, query_tokens, query_entities, max_no,
                   CoarseScored(idx.docs, SetOf(query_tokens), query_entities))

\* retrieve(index, project_root, query, top_k, candidate_k, per_chapter,
\* passage_max_chars), called with candidate_k = max(top_k, candidate_k).
\* ok is FALSE when read_text raises because a picked document's chapter
\* file is gone.
retrieve(idx, a) ==
    RetrieveQuery(idx, a, tokenize(a.query),
                  HitEntities(load_character_names(registry), a.query),
                  Max({ idx.docs[k].chapter_no : k \in 1..Len(idx.docs) }))

-----------------------------------------------------------------------------
(* State machine *)

\* the query commands that can run at the same time
Procs == {1, 2}

\* a query command that has not started
Idle == [pc |-> "idle", key |-> <<>>, entry |-> <<>>, items |-> <<>>]

NoneRunning == [p \in Procs |-> Idle]

\* no continue-write command has run
NoRun ==
    [ran |-> FALSE, crashed |-> FALSE, args |-> <<>>, codes |-> <<0, 0>>, payload |-> <<>>,
     before |-> <<>>, first_gate |-> {}, gates |-> 0, repeated |-> FALSE]

\* a bare project: no chapter file, no gate artifact
NoFlow ==
    [files |-> <<>>, artifacts |-> <<>>, clock |-> 0, runs |-> 0, edits |-> 0,
     changed |-> FALSE, last |-> NoRun]

\* entity_chapter_map.json before the first build: no file
NoEntityMap == [exists |-> FALSE, lists |-> <<>>]

\* no tracker file has been scanned
NoSnippets ==
    [ran |-> FALSE, tracker |-> [exists |-> FALSE, lines |-> <<>>], terms |-> <<>>,
     hits |-> <<>>]

\* no text has been split
NoPassages == [split |-> FALSE, text |-> <<>>, list |-> <<>>]

NotBuilt == [valid |-> FALSE, chapters |-> [f \in ChapterFiles |-> NoChapter], registry |-> {}]

\* `last` after an operation that is not a build
NoReport(op) ==
    [op |-> op, ok |-> TRUE, incremental |-> FALSE,
     reused_files |-> {}, rebuilt_files |-> {},
     old_index |-> NoIndex, old_side |-> [s \in Slugs |-> NoSidecar],
     old_fresh |-> FALSE, old_built |-> NotBuilt,
     follows_build |-> FALSE, prev_count |-> 0]

\* the arguments of a query command
Args(query) ==
    [query |-> query, top_k |-> DefaultTopK, candidate_k |-> DefaultCandidateK,
     per_chapter |-> DefaultPassagesPerChapter,
     passage_max_chars |-> DefaultPassageMaxChars,
     auto_build |-> FALSE, full_rebuild |-> FALSE,
     conditional |-> TRUE, force |-> FALSE, use_cache |-> TRUE]

NoResult ==
    [query |-> <<>>, query_entities |-> <<>>, index_signature |-> <<>>,
     retrieved |-> <<>>, relation_snippets |-> <<>>,
     docs_total |-> 0, candidate_pool |-> 0, rerank_topk |-> 0]

\* history of a query that ran no retrieval
NoRanking ==
    [ran |-> FALSE, coarse |-> <<>>, pool |-> <<>>, fine |-> <<>>, picked |-> <<>>,
     selected |-> <<>>]

\* history of a query that did not reach the trigger check
NoTrigger ==
    [should_trigger |-> FALSE, entities |-> <<>>, keyword_hits |-> {},
     light_hits |-> {}, query_length |-> 0, reason |-> <<>>]

\* `lastq` before any query has run
NoQuery ==
    [ran |-> FALSE, ok |-> FALSE, args |-> Args(<<>>), skipped |-> FALSE,
     cache_hit |-> FALSE, result |-> NoResult, docs_used |-> <<>>,
     served_from |-> <<>>, entries_before |-> 0,
     skipped_index |-> "none", index_garbage |-> FALSE, cache_form |-> "object",
     cache_looked_up |-> FALSE, cache_written |-> FALSE, dropped |-> <<>>,
     trigger |-> NoTrigger, ranking |-> NoRanking]

\* The projects a behaviour starts from: no chapter yet, or every chapter
\* written at time 1 with a text that names both entities.
InitialChapters ==
    { [f \in ChapterFiles |-> NoChapter],
      [f \in ChapterFiles |-> [exists |-> TRUE, mtime |-> 1, text |-> <<"A", "B", "C">>]] }

\* A project as it is handed to the tool: nothing built yet.
Init ==
    /\ chapters \in InitialChapters
    /\ registry \in { {}, {<<"A", "B">>} }
    /\ index = NoIndex
    /\ sidecars = [s \in Slugs |-> NoSidecar]
    /\ built = NotBuilt
    /\ fresh = FALSE
    /\ pure = TRUE
    /\ restamped = FALSE
    /\ edits = 0
    /\ last = NoReport("init")
    /\ cache = <<>>
    /\ cache_form = "object"
    /\ queries = 0
    /\ lastq = [cur |-> NoQuery, prev |-> NoQuery, consecutive |-> FALSE]
    /\ running = NoneRunning
    /\ flow = NoFlow
    /\ passages = NoPassages
    /\ entity_chapter_map = NoEntityMap
    /\ snippets = NoSnippets

\* A chapter file is written (created, edited or touched); an existing file
\* gets another modification time.
WriteChapter(f, t, txt) ==
    /\ edits < MaxEdits
    /\ chapters[f].exists => chapters[f].mtime # t
    /\ chapters' = [chapters EXCEPT ![f] = [exists |-> TRUE, mtime |-> t, text |-> txt]]
    /\ edits' = edits + 1
    /\ restamped' = (\/ restamped
                     \/ /\ built.valid
                        /\ built.chapters[f].exists
                        /\ built.chapters[f].mtime = t
                        /\ built.chapters[f].text # txt)
    /\ last' = NoReport("edit")
    /\ UNCHANGED <<registry, index, sidecars, built, fresh, pure, cache, cache_form, queries, lastq, running, flow, passages, entity_chapter_map, snippets>>

DeleteChapter(f) ==
    /\ edits < MaxEdits
    /\ chapters[f].exists
    /\ chapters' = [chapters EXCEPT ![f] = NoChapter]
    /\ edits' = edits + 1
    /\ last' = NoReport("edit")
    /\ UNCHANGED <<registry, index, sidecars, built, fresh, pure, restamped, cache, cache_form, queries, lastq, running, flow, passages, entity_chapter_map, snippets>>

\* character_tracker.md is edited so that its set of names changes
EditRegistry(names) ==
    /\ edits < MaxEdits
    /\ names # registry
    /\ registry' = names
    /\ edits' = edits + 1
    /\ last' = NoReport("edit")
    /\ UNCHANGED <<chapters, index, sidecars, built, fresh, pure, restamped, cache, cache_form, queries, lastq, running, flow, passages, entity_chapter_map, snippets>>

\* a sidecar file is deleted from outside
DeleteSidecar(s) ==
    /\ edits < MaxEdits
    /\ sidecars[s].exists
    /\ sidecars' = [sidecars EXCEPT ![s] = NoSidecar]
    /\ edits' = edits + 1
    /\ last' = NoReport("edit")
    /\ UNCHANGED <<chapters, registry, index, built, fresh, pure, restamped, cache, cache_form, queries, lastq, running, flow, passages, entity_chapter_map, snippets>>

\* story_index.json is replaced from outside by a file the tool did not write
OverwriteIndex(content) ==
    /\ edits < MaxEdits
    /\ content # index
    /\ index' = content
    /\ fresh' = FALSE
    /\ pure' = FALSE
    /\ edits' = edits + 1
    /\ last' = NoReport("edit")
    /\ UNCHANGED <<chapters, registry, sidecars, built, restamped, cache, cache_form, queries, lastq, running, flow, passages, entity_chapter_map, snippets>>

\* The foreign contents of story_index.json the model tries: no file, an
\* unparsable file, a JSON value that is no object, and the present snapshot
\* without its character_sig key (a snapshot of the format that had none),
\* with a document whose mtime is no number, or with an entry that is no object.
ForeignIndexes ==
    { NoIndex,
      [NoIndex EXCEPT !.exists = TRUE, !.kind = "garbage"],
      [NoIndex EXCEPT !.exists = TRUE, !.kind = "nonobject"] }
    \cup (IF index.kind # "object" THEN {}
          ELSE { [index EXCEPT !.has_sig = FALSE, !.character_sig = EmptyStr] }
               \cup { [index EXCEPT !.docs[k].mtime_ok = FALSE] : k \in 1..Len(index.docs) }
               \cup { [index EXCEPT !.docs[k].dict = FALSE] : k \in 1..Len(index.docs) \cap {1} })

\* the build command: main() calling build_index
Build(incremental) ==
    LET r == build_index(incremental)
        follows == last.op = "build" /\ last.ok
    IN /\ index' = r.index
       /\ sidecars' = r.side
       /\ entity_chapter_map' = r.entity_map
       /\ built' = IF r.ok THEN [valid |-> TRUE, chapters |-> chapters, registry |-> registry]
                   ELSE built
       /\ fresh' = IF r.ok THEN TRUE ELSE fresh
       /\ last' = [op |-> "build", ok |-> r.ok, incremental |-> incremental,
                   reused_files |-> r.reused_files, rebuilt_files |-> r.rebuilt_files,
                   old_index |-> index, old_side |-> sidecars,
                   old_fresh |-> fresh, old_built |-> built,
                   follows_build |-> follows,
                   prev_count |-> IF follows THEN index.chapter_count ELSE 0]
       /\ UNCHANGED <<chapters, registry, pure, restamped, edits, cache, cache_form, queries, lastq, running, flow, passages, snippets>>

-----------------------------------------------------------------------------
(* The query cache.  An item of `cache` stands for n entries saved at the    *)
(* same time; n is 1 for an entry a query of the model wrote, and more for a *)
(* run of entries the file already held under other keys.                    *)

ForeignKey == <<"#", "*">>

\* a cache file that holds max_entries entries of other keys, saved at time t
FullCache(t) ==
    << [n |-> max_entries, key |-> ForeignKey, saved_at |-> t, dict |-> TRUE,
        result |-> NoResult, from_docs |-> <<>>] >>

\* load_cache(path)["entries"]: a file that cannot be parsed or holds no
\* object counts as a cache without entries
load_cache ==
    IF cache_form = "garbage" THEN <<>> ELSE cache

RECURSIVE EntryCount(_)
\* len(entries)
EntryCount(items) == IF items = <<>> THEN 0 ELSE Head(items).n + EntryCount(Tail(items))

\* the lookup that never finds the entry
CacheHit_never(items, key) == FALSE

\* entries.get(cache_key) is an object with a result
CacheHit(items, key) == \E k \in 1..Len(items) : items[k].key = key /\ items[k].dict

CacheEntry(items, key) == items[CHOOSE k \in 1..Len(items) : items[k].key = key]

\* cache["entries"][cache_key] = entry: a key the mapping holds keeps its place
PutEntry(items, entry) ==
    IF \E k \in 1..Len(items) : items[k].key = entry.key
    THEN [k \in 1..Len(items) |-> IF items[k].key = entry.key THEN entry ELSE items[k]]
    ELSE Append(items, entry)

\* the sort that leaves the entries in file order
SortBySavedAt_unsorted(items) == items

RECURSIVE SortBySavedAt(_)
\* sorted(entries.items(), key=saved_at, reverse=True); the sort is stable
SortBySavedAt(items) ==
    IF items = <<>> THEN <<>>
    ELSE LET i == CHOOSE a \in 1..Len(items) :
                     /\ \A b \in 1..Len(items) : items[b].saved_at <= items[a].saved_at
                     /\ \A b \in 1..(a - 1) : items[b].saved_at < items[a].saved_at
             rest == [k \in 1..(Len(items) - 1) |-> IF k < i THEN items[k] ELSE items[k + 1]]
         IN <<items[i]>> \o SortBySavedAt(rest)

RECURSIVE FirstEntries(_, _)
\* items[:room], counted in entries
FirstEntries(items, room) ==
    IF items = <<>> \/ room <= 0 THEN <<>>
    ELSE IF Head(items).n <= room
    THEN <<Head(items)>> \o FirstEntries(Tail(items), room - Head(items).n)
    ELSE << [Head(items) EXCEPT !.n = room] >>

RECURSIVE EntriesFrom(_, _)
\* items[room:], counted in entries
EntriesFrom(items, room) ==
    IF items = <<>> THEN <<>>
    ELSE IF room <= 0 THEN items
    ELSE IF Head(items).n <= room THEN EntriesFrom(Tail(items), room - Head(items).n)
    ELSE << [Head(items) EXCEPT !.n = Head(items).n - room] >> \o Tail(items)

\* save_cache(path, cache): the entries the file holds afterwards
save_cache(items) ==
    IF EntryCount(items) > max_entries
    THEN FirstEntries(SortBySavedAt(items), max_entries)
    ELSE items

\* history: the entries save_cache leaves out of the file
DroppedEntries(items) ==
    IF EntryCount(items) > max_entries
    THEN EntriesFrom(SortBySavedAt(items), max_entries)
    ELSE <<>>

\* save_cache raises: the sort reads saved_at of an entry that is no object
SaveRaises(items) ==
    /\ EntryCount(items) > max_entries
    /\ \E k \in 1..Len(items) : ~items[k].dict

\* main(), line 795: cache.get("entries", {}).get(cache_key) raises when the
\* file's "entries" is no object
LookupRaises(a) == a.use_cache /\ cache_form = "badentries"

\* index_signature and retrieve read every document with d.get: they raise on
\* a snapshot that is no object or holds an entry that is no object
DocsReadable(idx) ==
    idx.kind = "object" /\ \A k \in 1..Len(idx.docs) : idx.docs[k].dict

\* a query that builds the index whether or not story_index.json is there
LoadIndex_rebuilding(a, must_build, b) ==
    [must_build |-> TRUE, built_now |-> b.ok, index |-> b.index, side |-> b.side,
     entity_map |-> b.entity_map, loaded |-> b.ok]

\* main(), lines 748-754: the index the query runs on, built first when
\* --auto-build is given or story_index.json is absent, else read from the file
LoadIndex(a, must_build, b) ==
    [must_build |-> must_build,
     built_now |-> must_build /\ b.ok,
     index |-> IF must_build THEN b.index ELSE index,
     side |-> IF must_build THEN b.side ELSE sidecars,
     entity_map |-> IF must_build THEN b.entity_map ELSE entity_chapter_map,
     loaded |-> IF must_build THEN b.ok ELSE index.kind # "garbage"]

\* the skipped result with relation snippets added
SkippedResult_with_snippets(a, trigger) ==
    [NoResult EXCEPT !.query = a.query, !.query_entities = trigger.entities,
                     !.relation_snippets = <<trigger.entities>>]

\* main(), lines 760-768: the result of a skipped query
SkippedResult(a, trigger) ==
    [NoResult EXCEPT !.query = a.query, !.query_entities = trigger.entities]

\* the entry main() saves for a computed result
NewEntry(key, saved_at, r, idx) ==
    [n |-> 1, key |-> key, saved_at |-> saved_at, dict |-> TRUE,
     result |-> [query |-> r.query, query_entities |-> r.query_entities,
                 index_signature |-> r.index_signature, retrieved |-> r.retrieved,
                 relation_snippets |-> r.relation_snippets,
                 docs_total |-> r.docs_total, candidate_pool |-> r.candidate_pool,
                 rerank_topk |-> r.rerank_topk],
     from_docs |-> idx.docs]

\* the answer of a main() that runs the retrieval and saves its result on a
\* cache hit as well
Answer_recomputed(a, idx, loaded, trigger, skip, key, hit, r, entry) ==
    LET reached == loaded /\ ~skip /\ DocsReadable(idx)
        computed == reached /\ ~LookupRaises(a) /\ r.ok
        saving == computed /\ a.use_cache
        saved == saving /\ ~SaveRaises(PutEntry(load_cache, entry))
        ok == /\ loaded
              /\ skip \/ (DocsReadable(idx) /\ ~LookupRaises(a) /\ r.ok /\ (saving => saved))
    IN [ok |-> ok,
        skip |-> skip,
        key |-> key,
        hit |-> hit,
        answered |-> ok /\ ~skip,
        looked_up |-> reached /\ a.use_cache,
        saved |-> saved,
        trigger |-> IF loaded THEN trigger ELSE NoTrigger,
        ranking |-> IF computed
                    THEN [ran |-> TRUE, coarse |-> r.coarse, pool |-> r.pool,
                          fine |-> r.fine, picked |-> r.picked,
                          selected |-> r.selected]
                    ELSE NoRanking,
        result |->
            IF ~ok THEN NoResult
            ELSE IF skip THEN SkippedResult(a, trigger)
            ELSE IF hit THEN CacheEntry(load_cache, key).result
            ELSE entry.result]

\* main(), lines 756-834: the trigger check, the cache lookup, the retrieval
\* and the saving of its result
Answer(a, idx, loaded, trigger, skip, key, hit, r, entry) ==
    LET reached == loaded /\ ~skip /\ DocsReadable(idx)
        looked_up == reached /\ a.use_cache
        computed == reached /\ ~LookupRaises(a) /\ ~hit /\ r.ok
        saving == computed /\ a.use_cache
        saved == saving /\ ~SaveRaises(PutEntry(load_cache, entry))
        ok == /\ loaded
              /\ skip \/ (/\ DocsReadable(idx)
                          /\ ~LookupRaises(a)
                          /\ hit \/ (r.ok /\ (saving => saved)))
    IN [ok |-> ok,
        skip |-> skip,
        key |-> key,
        hit |-> hit,
        answered |-> ok /\ ~skip,
        looked_up |-> looked_up,
        saved |-> saved,
        trigger |-> IF loaded THEN trigger ELSE NoTrigger,
        ranking |-> IF computed
                    THEN [ran |-> TRUE, coarse |-> r.coarse, pool |-> r.pool,
                          fine |-> r.fine, picked |-> r.picked,
                          selected |-> r.selected]
                    ELSE NoRanking,
        result |->
            IF ~ok THEN NoResult
            ELSE IF skip THEN SkippedResult(a, trigger)
            ELSE IF hit THEN CacheEntry(load_cache, key).result
            ELSE entry.result]

\* what the query reports, and what it leaves on disk
QueryStep(a, saved_at, ld, ans, entry) ==
    /\ queries < MaxQueries
    /\ queries' = queries + 1
    /\ index' = ld.index
    /\ sidecars' = ld.side
    /\ entity_chapter_map' = ld.entity_map
    /\ built' = IF ld.built_now
                THEN [valid |-> TRUE, chapters |-> chapters, registry |-> registry]
                ELSE built
    /\ fresh' = IF ld.built_now THEN TRUE ELSE fresh
    /\ cache' = IF ans.saved THEN save_cache(PutEntry(load_cache, entry)) ELSE cache
    /\ cache_form' = IF ans.saved THEN "object" ELSE cache_form
    /\ lastq' = [cur |-> [ran |-> TRUE, ok |-> ans.ok, args |-> a,
                          skipped |-> ans.ok /\ ans.skip,
                          cache_hit |-> ans.answered /\ ans.hit,
                          result |-> ans.result,
                          docs_used |-> IF ld.loaded /\ ld.index.kind = "object"
                                        THEN ld.index.docs ELSE <<>>,
                          served_from |->
                              IF ans.answered /\ ans.hit
                              THEN CacheEntry(load_cache, ans.key).from_docs
                              ELSE IF ans.answered THEN ld.index.docs ELSE <<>>,
                          entries_before |-> EntryCount(load_cache),
                          skipped_index |-> IF ~(ans.ok /\ ans.skip) THEN "none"
                                            ELSE IF ld.must_build THEN "built"
                                            ELSE "read",
                          index_garbage |-> index.kind = "garbage",
                          cache_form |-> cache_form,
                          cache_looked_up |-> ans.looked_up,
                          cache_written |-> ans.saved,
                          dropped |-> IF ans.saved
                                      THEN DroppedEntries(PutEntry(load_cache, entry))
                                      ELSE <<>>,
                          trigger |-> ans.trigger,
                          ranking |-> ans.ranking],
                 prev |-> [lastq.cur EXCEPT !.served_from = <<>>,
                                            !.dropped = <<>>,
                                            !.trigger = NoTrigger,
                                            !.ranking = NoRanking],
                 consecutive |-> last.op = "query"]
    /\ last' = NoReport("query")
    /\ UNCHANGED <<chapters, registry, pure, restamped, edits, running, flow, passages, snippets>>

\* main() once the result of a miss is known
QueryEntry(a, saved_at, ld, trigger, key, r, entry) ==
    QueryStep(a, saved_at, ld,
              Answer(a, ld.index, ld.loaded, trigger,
                     a.conditional /\ ~a.force /\ ~trigger.should_trigger,
                     key,
                     a.use_cache /\ CacheHit(load_cache, key),
                     r,
                     entry),
              entry)

\* main() from the trigger check on: the key, the lookup and the retrieval
QueryKeyed(a, saved_at, ld, trigger, key, r) ==
    QueryEntry(a, saved_at, ld, trigger, key, r, NewEntry(key, saved_at, r, ld.index))

\* main() for the query command on the loaded index
QueryOn(a, saved_at, ld, names) ==
    QueryKeyed(a, saved_at, ld, analyze_query_trigger(a.query, names),
               CacheKey(a, ld.index), retrieve(ld.index, a))

\* The query command, main() from the loading of the index on.  saved_at is
\* the wall-clock second at which a miss is saved.
Query(a, saved_at) ==
    QueryOn(a, saved_at,
            LoadIndex(a, a.auto_build \/ ~index.exists, build_index(~a.full_rebuild)),
            load_character_names(registry))

\* The foreign contents of query_cache.json the model tries: an unparsable
\* file or a JSON value that is no object, an object whose "entries" is no
\* object, max_entries well-formed entries of other keys, max_entries entries
\* of other keys that are no objects, and one entry that is no object under
\* the key of the default query for the present snapshot.
ForeignCaches ==
    { [form |-> "garbage", items |-> <<>>],
      [form |-> "badentries", items |-> <<>>],
      [form |-> "object",
       items |-> << [FullCache(0)[1] EXCEPT !.dict = FALSE] >>] }
    \cup { [form |-> "object", items |-> FullCache(t)] : t \in 0..Now }
    \cup (IF ~DocsReadable(index) THEN {}
          ELSE { [form |-> "object",
                  items |-> << [FullCache(0)[1] EXCEPT
                                   !.n = 1, !.dict = FALSE,
                                   !.key = CacheKey(Args(<<"A", "B", "C">>), index)] >>] })

\* query_cache.json is replaced from outside by a file the tool did not write
OverwriteCache(content) ==
    /\ edits < MaxEdits
    /\ content # [form |-> cache_form, items |-> cache]
    /\ cache' = content.items
    /\ cache_form' = content.form
    /\ edits' = edits + 1
    /\ last' = NoReport("edit")
    /\ UNCHANGED <<chapters, registry, index, sidecars, built, fresh, pure, restamped,
                   queries, lastq, running, flow, passages, entity_chapter_map, snippets>>

Queries == { <<"A", "B", "C">>, <<" ", "A", "B", "C">>, <<"x", "x">> }

\* The command lines the model runs: every query with the default options,
\* and one query with each option changed in turn.
QueryArgs ==
    { Args(q) : q \in Queries }
    \cup { [Args(<<"A", "B", "C">>) EXCEPT !.top_k = 1],
           [Args(<<"A", "B", "C">>) EXCEPT !.auto_build = TRUE],
           [Args(<<"A", "B", "C">>) EXCEPT !.use_cache = FALSE],
           [Args(<<"x", "x">>) EXCEPT !.force = TRUE] }

Next ==
    \/ \E f \in ChapterFiles, t \in 1..MaxTime, txt \in Texts : WriteChapter(f, t, txt)
    \/ \E f \in ChapterFiles : DeleteChapter(f)
    \/ \E names \in SUBSET AllNames : EditRegistry(names)
    \/ \E s \in Slugs : DeleteSidecar(s)
    \/ \E content \in ForeignIndexes : OverwriteIndex(content)
    \/ \E incremental \in BOOLEAN : Build(incremental)

Spec == Init /\ [][Next]_vars

\* A project with every chapter written, nothing built yet, and a query cache
\* that is empty or full of entries of other keys, saved earlier than the
\* queries run or in the same second.
InitQ ==
    /\ chapters = [f \in ChapterFiles |->
                      [exists |-> TRUE, mtime |-> 1, text |-> <<"A", "B", "C">>]]
    /\ registry = {<<"A", "B">>}
    /\ index = NoIndex
    /\ sidecars = [s \in Slugs |-> NoSidecar]
    /\ built = NotBuilt
    /\ fresh = FALSE
    /\ pure = TRUE
    /\ restamped = FALSE
    /\ edits = 0
    /\ last = NoReport("init")
    /\ cache \in { <<>> } \cup { FullCache(t) : t \in 0..Now }
    /\ cache_form = "object"
    /\ queries = 0
    /\ lastq = [cur |-> NoQuery, prev |-> NoQuery, consecutive |-> FALSE]
    /\ running = NoneRunning
    /\ flow = NoFlow
    /\ passages = NoPassages
    /\ entity_chapter_map = NoEntityMap
    /\ snippets = NoSnippets

NextQ ==
    \/ \E a \in QueryArgs : Query(a, Now)
    \/ Build(TRUE)
    \/ edits < MaxQueryEdits /\ \E names \in SUBSET AllNames : EditRegistry(names)
    \/ edits < MaxQueryEdits
           /\ \E f \in ChapterFiles, t \in 1..MaxTime, txt \in Texts : WriteChapter(f, t, txt)
    \/ edits < MaxQueryEdits /\ \E f \in ChapterFiles : DeleteChapter(f)

\* builds, queries and edits of the chapters and the registry
SpecQ == InitQ /\ [][NextQ]_vars

\* The command lines run against files the tool did not write
CorruptArgs ==
    { Args(<<"A", "B", "C">>), Args(<<"x", "x">>),
      [Args(<<"A", "B", "C">>) EXCEPT !.auto_build = TRUE],
      [Args(<<"A", "B", "C">>) EXCEPT !.use_cache = FALSE] }

\* A project with every chapter written, nothing built yet, no cache file.
InitC ==
    /\ chapters = [f \in ChapterFiles |->
                      [exists |-> TRUE, mtime |-> 1, text |-> <<"A", "B", "C">>]]
    /\ registry = {<<"A", "B">>}
    /\ index = NoIndex
    /\ sidecars = [s \in Slugs |-> NoSidecar]
    /\ built = NotBuilt
    /\ fresh = FALSE
    /\ pure = TRUE
    /\ restamped = FALSE
    /\ edits = 0
    /\ last = NoReport("init")
    /\ cache = <<>>
    /\ cache_form = "object"
    /\ queries = 0
    /\ lastq = [cur |-> NoQuery, prev |-> NoQuery, consecutive |-> FALSE]
    /\ running = NoneRunning
    /\ flow = NoFlow
    /\ passages = NoPassages
    /\ entity_chapter_map = NoEntityMap
    /\ snippets = NoSnippets

NextC ==
    \/ \E a \in CorruptArgs : Query(a, Now)
    \/ \E content \in ForeignIndexes : OverwriteIndex(content)
    \/ \E content \in ForeignCaches : OverwriteCache(content)

\* queries over snapshot and cache files replaced from outside
SpecC == InitC /\ [][NextC]_vars

\* The command lines of the queries that run at the same time: each passes
\* the trigger check and each has its own cache key.
ConcurrentArgs ==
    { Args(<<"A", "B", "C">>),
      [Args(<<"A", "B", "C">>) EXCEPT !.top_k = 1],
      [Args(<<"x", "x">>) EXCEPT !.force = TRUE] }

\* the file a query writes at line 834 from the cache it loaded at line 828,
\* had it loaded the file again at the moment of writing
WrittenCache_reloaded(items, entry) == save_cache(PutEntry(load_cache, entry))

\* main(), lines 829-834: the cache loaded at line 828 with the new entry
\* put in, as save_cache writes it over the file
WrittenCache(items, entry) == save_cache(PutEntry(items, entry))

\* main(), lines 749-822 of one of the concurrent queries: the snapshot is
\* read, the cache is looked up and, on a miss, the result is retrieved
Lookup(p, a) ==
    /\ running[p].pc = "idle"
    /\ index.exists /\ DocsReadable(index)
    /\ cache_form = "object"
    /\ running' =
          [running EXCEPT ![p] =
              IF CacheHit(load_cache, CacheKey(a, index))
              THEN [Idle EXCEPT !.pc = "hit", !.key = CacheKey(a, index)]
              ELSE [pc |-> "missed", key |-> CacheKey(a, index),
                    entry |-> NewEntry(CacheKey(a, index), Now, retrieve(index, a), index),
                    items |-> <<>>]]
    /\ UNCHANGED <<chapters, registry, index, sidecars, built, fresh, pure, restamped,
                   edits, last, cache, cache_form, queries, lastq, flow, passages, entity_chapter_map, snippets>>

\* main(), line 828: the query loads the cache file again before it adds
\* its entry
Reload(p) ==
    /\ running[p].pc = "missed"
    /\ running' = [running EXCEPT ![p].pc = "loaded", ![p].items = load_cache]
    /\ UNCHANGED <<chapters, registry, index, sidecars, built, fresh, pure, restamped,
                   edits, last, cache, cache_form, queries, lastq, flow, passages, entity_chapter_map, snippets>>

\* main(), lines 829-834: the query overwrites the cache file with what it
\* loaded plus its entry
Save(p) ==
    /\ running[p].pc = "loaded"
    /\ cache' = WrittenCache(running[p].items, running[p].entry)
    /\ cache_form' = "object"
    /\ running' = [running EXCEPT ![p].pc = "saved"]
    /\ UNCHANGED <<chapters, registry, index, sidecars, built, fresh, pure, restamped,
                   edits, last, queries, lastq, flow, passages, entity_chapter_map, snippets>>

InitP ==
    /\ chapters = [f \in ChapterFiles |->
                      [exists |-> TRUE, mtime |-> 1, text |-> <<"A", "B", "C">>]]
    /\ registry = {<<"A", "B">>}
    /\ index = NoIndex
    /\ sidecars = [s \in Slugs |-> NoSidecar]
    /\ built = NotBuilt
    /\ fresh = FALSE
    /\ pure = TRUE
    /\ restamped = FALSE
    /\ edits = 0
    /\ last = NoReport("init")
    /\ cache = <<>>
    /\ cache_form = "object"
    /\ queries = 0
    /\ lastq = [cur |-> NoQuery, prev |-> NoQuery, consecutive |-> FALSE]
    /\ running = NoneRunning
    /\ flow = NoFlow
    /\ passages = NoPassages
    /\ entity_chapter_map = NoEntityMap
    /\ snippets = NoSnippets

NextP ==
    \/ ~index.exists /\ Build(TRUE)
    \/ \E p \in Procs, a \in ConcurrentArgs : Lookup(p, a)
    \/ \E p \in Procs : Reload(p)
    \/ \E p \in Procs : Save(p)

\* two query commands that run at the same time on a built project
SpecP == InitP /\ [][NextP]_vars

\* n filler characters
Pad(n) == [k \in 1..n |-> "x"]

\* The queries of the trigger check: with and without an entity, a plot
\* keyword and a light-scene keyword, and of 17 and 18 characters before and
\* after normalization.
TriggerQueries ==
    { <<"x", "x">>, <<"A", "B">>, <<JUE, ZHAN>>, <<RI, CHANG>>,
      <<RI, CHANG, JUE, ZHAN>>, <<"A", "B", RI, CHANG>>,
      Pad(LongQueryChars), Pad(LongQueryChars - 1),
      Pad(LongQueryChars - 2) \o <<RI, CHANG>>,
      <<" ">> \o Pad(LongQueryChars - 1),
      Pad(8) \o <<" ", " ">> \o Pad(LongQueryChars - 10) }

InitT ==
    /\ chapters = [f \in ChapterFiles |->
                      [exists |-> TRUE, mtime |-> 1, text |-> <<"A", "B", "C">>]]
    /\ registry \in SUBSET AllNames
    /\ index = NoIndex
    /\ sidecars = [s \in Slugs |-> NoSidecar]
    /\ built = NotBuilt
    /\ fresh = FALSE
    /\ pure = TRUE
    /\ restamped = FALSE
    /\ edits = 0
    /\ last = NoReport("init")
    /\ cache = <<>>
    /\ cache_form = "object"
    /\ queries = 0
    /\ lastq = [cur |-> NoQuery, prev |-> NoQuery, consecutive |-> FALSE]
    /\ running = NoneRunning
    /\ flow = NoFlow
    /\ passages = NoPassages
    /\ entity_chapter_map = NoEntityMap
    /\ snippets = NoSnippets

NextT ==
    \/ \E q \in TriggerQueries : Query(Args(q), Now)
    \/ edits < MaxQueryEdits /\ \E names \in SUBSET AllNames : EditRegistry(names)

\* conditional queries over registries of differing names
SpecT == InitT /\ [][NextT]_vars

\* The command lines whose retrieval the model ranks: the trigger check is
\* overridden with --force, and the sizes of the lists are cut down to the
\* three documents of the model and the three characters of a chapter.
RetrievalArgs ==
    { [Args(q) EXCEPT !.force = TRUE] : q \in { <<"A", "B", "C">>, <<"x", "x">> } }
    \cup { [Args(<<"A", "B", "C">>) EXCEPT !.force = TRUE, !.top_k = 1, !.candidate_k = 2],
           [Args(<<"A", "B", "C">>) EXCEPT !.force = TRUE, !.candidate_k = 1],
           [Args(<<"x", "x">>) EXCEPT !.force = TRUE, !.top_k = 1, !.candidate_k = 1],
           [Args(<<"x", "x">>) EXCEPT !.force = TRUE, !.top_k = 2, !.candidate_k = 1],
           [Args(<<"A", "B", "C">>) EXCEPT !.force = TRUE, !.passage_max_chars = 2],
           [Args(<<"A", "B", "C">>) EXCEPT !.force = TRUE, !.use_cache = FALSE] }

\* The projects retrieval starts from: no chapter, every chapter naming the
\* entities, and one chapter of the three holding the query's word in lower
\* case, which names no entity.
RetrievalProjects ==
    { [f \in ChapterFiles |-> NoChapter],
      [f \in ChapterFiles |-> [exists |-> TRUE, mtime |-> 1, text |-> <<"A", "B", "C">>]],
      [f \in ChapterFiles |->
          [exists |-> TRUE, mtime |-> 1,
           text |-> IF f = <<"a", " ", "b", ".", "m", "d">> THEN <<"a", "b", "c">>
                    ELSE <<"A", "B", "C">>]] }

InitR ==
    /\ chapters \in RetrievalProjects
    /\ registry \in { {}, {<<"A", "B">>} }
    /\ index = NoIndex
    /\ sidecars = [s \in Slugs |-> NoSidecar]
    /\ built = NotBuilt
    /\ fresh = FALSE
    /\ pure = TRUE
    /\ restamped = FALSE
    /\ edits = 0
    /\ last = NoReport("init")
    /\ cache = <<>>
    /\ cache_form = "object"
    /\ queries = 0
    /\ lastq = [cur |-> NoQuery, prev |-> NoQuery, consecutive |-> FALSE]
    /\ running = NoneRunning
    /\ flow = NoFlow
    /\ passages = NoPassages
    /\ entity_chapter_map = NoEntityMap
    /\ snippets = NoSnippets

NextR ==
    \/ \E a \in RetrievalArgs : Query(a, Now)
    \/ Build(TRUE)
    \/ edits < MaxQueryEdits
           /\ \E f \in ChapterFiles, t \in 1..MaxTime, txt \in Texts : WriteChapter(f, t, txt)
    \/ edits < MaxQueryEdits /\ \E names \in SUBSET AllNames : EditRegistry(names)

\* builds, forced queries and edits over projects of differing chapters
SpecR == InitR /\ [][NextR]_vars

\* The chapter texts that are split: a short one, two paragraphs, a paragraph
\* of exactly the budget, one sentence that is one character over it, two
\* sentences that fit one by one but not together, and three sentences of
\* which the first two fit together.
PassageTexts ==
    { <<"A", "B", "C">>,
      <<"A", "B", "C", NL, " ", NL, "x", "x">>,
      Pad(PassageChars),
      Pad(PassageChars + 1),
      Pad(200) \o <<"!">> \o Pad(200),
      Pad(100) \o <<"!", " ">> \o Pad(100) \o <<"?">> \o Pad(200) \o <<"!">> }

\* top_passages, lines 288-289: the chapter file is read and split
SplitChapter(f) ==
    /\ chapters[f].exists
    /\ passages' = [split |-> TRUE, text |-> chapters[f].text,
                    list |-> split_passages(chapters[f].text)]
    /\ UNCHANGED <<chapters, registry, index, sidecars, built, fresh, pure, restamped,
                   edits, last, cache, cache_form, queries, lastq, running, flow,
                   entity_chapter_map, snippets>>

InitS ==
    /\ chapters \in [ChapterFiles -> { [exists |-> TRUE, mtime |-> 1, text |-> t] :
                                          t \in PassageTexts }]
    /\ registry = {}
    /\ index = NoIndex
    /\ sidecars = [s \in Slugs |-> NoSidecar]
    /\ built = NotBuilt
    /\ fresh = FALSE
    /\ pure = TRUE
    /\ restamped = FALSE
    /\ edits = 0
    /\ last = NoReport("init")
    /\ cache = <<>>
    /\ cache_form = "object"
    /\ queries = 0
    /\ lastq = [cur |-> NoQuery, prev |-> NoQuery, consecutive |-> FALSE]
    /\ running = NoneRunning
    /\ flow = NoFlow
    /\ passages = NoPassages
    /\ entity_chapter_map = NoEntityMap
    /\ snippets = NoSnippets

NextS == \E f \in ChapterFiles : SplitChapter(f)

\* chapter texts of differing lengths are split into passages
SpecS == InitS /\ [][NextS]_vars

\* The lines of the tracker files that are scanned: the head, the separator
\* and two rows of a table, an empty line and a line of plain text.
TrackerLines ==
    { <<"|", "n", "|", "s", "|">>,
      <<"|", "-", "|", "-", "|">>,
      <<"|", "A", "B", "|", "x", "|">>,
      <<"|", "B", "C", "|", "x", "|">>,
      <<>>,
      <<"x">> }

\* a file of n lines
LinesOf(n) == [1..n -> TrackerLines]

\* a file of 27 lines that names "AB" in every third line, each time followed
\* by another number
NumberedTracker ==
    [k \in 1..27 |-> IF k % 3 = 1 THEN <<"A", "B">> \o IntStr(k) ELSE <<"x">>]

\* the same name on two lines that are five empty lines apart
RepeatedTracker == <<<<"A", "B">>, <<>>, <<>>, <<>>, <<>>, <<>>, <<"A", "B">>>>

\* The tracker files: none, every file of up to three of the lines above, the
\* numbered file and the file that repeats a line.
TrackerFiles ==
    { [exists |-> FALSE, lines |-> <<>>] }
    \cup { [exists |-> TRUE, lines |-> l] :
               l \in LinesOf(0) \cup LinesOf(1) \cup LinesOf(2) \cup LinesOf(3)
                        \cup {NumberedTracker, RepeatedTracker} }

\* the query entities: none, one name, both names
SnippetTerms == { <<>>, <<<<"A", "B">>>>, <<<<"A", "B">>, <<"B", "C">>>> }

\* retrieve, lines 578-579: the tracker file is scanned for the query entities
ExtractSnippets ==
    /\ ~snippets.ran
    /\ snippets' = [snippets EXCEPT
                       !.ran = TRUE,
                       !.hits = extract_relation_snippets(snippets.tracker, snippets.terms)]
    /\ UNCHANGED <<chapters, registry, index, sidecars, built, fresh, pure, restamped,
                   edits, last, cache, cache_form, queries, lastq, running, flow, passages,
                   entity_chapter_map>>

InitE ==
    /\ chapters = [f \in ChapterFiles |-> NoChapter]
    /\ registry = {}
    /\ index = NoIndex
    /\ sidecars = [s \in Slugs |-> NoSidecar]
    /\ built = NotBuilt
    /\ fresh = FALSE
    /\ pure = TRUE
    /\ restamped = FALSE
    /\ edits = 0
    /\ last = NoReport("init")
    /\ cache = <<>>
    /\ cache_form = "object"
    /\ queries = 0
    /\ lastq = [cur |-> NoQuery, prev |-> NoQuery, consecutive |-> FALSE]
    /\ running = NoneRunning
    /\ flow = NoFlow
    /\ passages = NoPassages
    /\ entity_chapter_map = NoEntityMap
    /\ snippets \in { [NoSnippets EXCEPT !.tracker = t, !.terms = q] :
                          t \in TrackerFiles, q \in SnippetTerms }

NextE == ExtractSnippets

\* tracker files of differing lines are scanned for relation snippets
SpecE == InitE /\ [][NextE]_vars

\* the six lower-case letters of the model
Letters == <<"a", "b", "c", "d", "m", "x">>

\* a text of n words of three letters, no two alike
Words(n) ==
    Join([k \in 1..n |-> <<Letters[((k - 1) \div 6) + 1], Letters[((k - 1) % 6) + 1], "x">>],
         " ")

\* The chapter texts whose sidecars are compared: a short one, one of one
\* different word more than a sidecar keeps keywords, and one of one
\* character more than a sidecar keeps of the summary.
MetaTexts == { <<"A", "B", "C">>, Words(MetaKeywordTopN + 1), Pad(MetaSummaryChars + 1) }

InitM ==
    /\ chapters \in [ChapterFiles -> { [exists |-> TRUE, mtime |-> 1, text |-> t] :
                                          t \in MetaTexts }]
    /\ registry = {<<"A", "B">>}
    /\ index = NoIndex
    /\ sidecars = [s \in Slugs |-> NoSidecar]
    /\ built = NotBuilt
    /\ fresh = FALSE
    /\ pure = TRUE
    /\ restamped = FALSE
    /\ edits = 0
    /\ last = NoReport("init")
    /\ cache = <<>>
    /\ cache_form = "object"
    /\ queries = 0
    /\ lastq = [cur |-> NoQuery, prev |-> NoQuery, consecutive |-> FALSE]
    /\ running = NoneRunning
    /\ flow = NoFlow
    /\ passages = NoPassages
    /\ entity_chapter_map = NoEntityMap
    /\ snippets = NoSnippets

NextM ==
    \/ \E incremental \in BOOLEAN : Build(incremental)
    \/ edits < MaxQueryEdits /\ \E f \in ChapterFiles : DeleteChapter(f)

\* builds over chapters of few and of many different words
SpecM == InitM /\ [][NextM]_vars




-----------------------------------------------------------------------------
(* novel_flow_executor.py: chapter files and what the executor reads in them *)

QIAN == "q"         \* U+8FC1, with YI the prefix of a chapter moved out of
YI == "i"           \* U+79FB  the knowledge base

\* the default --chapter-title
DefaultTitle == <<"d", "x">>

Manuscript == "03_manuscript"
KnowledgeBase == "02_knowledge_base"
Analysis == "01_analysis"

\* a chapter file name: the chapter number between DI and ZHANG, then "-title"
ChapterName(no, title) ==
    <<DI>> \o IntStr(no) \o <<ZHANG>> \o (IF title = <<>> THEN <<>> ELSE <<"-">> \o title) \o MdSuffix

\* a file of the project
File(dir, name) == [dir |-> dir, name |-> name]

\* CHAPTER_RE.match(name): DI, digits, ZHANG, anything, ".md"
CHAPTER_RE(name) ==
    /\ Len(name) >= 3 + Len(MdSuffix)
    /\ name[1] = DI
    /\ SubSeq(name, Len(name) - Len(MdSuffix) + 1, Len(name)) = MdSuffix
    /\ \E j \in 3..(Len(name) - Len(MdSuffix)) :
           /\ name[j] = ZHANG
           /\ \A k \in 2..(j - 1) : IsDigit(name[k])

\* re.search(DI (\d+) ZHANG, name), 0 when there is none
chapter_no_from_name(name) == parse_chapter_no(name)

\* the characters of "# " + stem.replace("-", " ") that are not whitespace
TitleChars(stem) == 1 + Cardinality({ k \in 1..Len(stem) : stem[k] \notin {"-", " "} })

\* len("<!--NOVEL_FLOW_STUB-->"), the marker without its whitespace
StubMarkerChars == 22
\* len("[待写]")
PlaceholderChars == 4
\* len("##正文")
BodyHeadingChars == 4
MAX_STUB_EFFECTIVE_CHARS == 800

\* A text, by what the executor reads in it: whether it holds STUB_MARKER,
\* whether it holds a DRAFT_PLACEHOLDER_LINE, its length without whitespace
\* (effective), and the counts evaluate_quality takes after clean_for_stats
\* dropped the heading lines and the HTML comments.
Text(marker, placeholder, effective, chars, paragraphs, dialogue, sentences) ==
    [marker |-> marker, placeholder |-> placeholder, effective |-> effective,
     char_count |-> chars, paragraph_count |-> paragraphs,
     dialogue_chars |-> dialogue, sentence_count |-> sentences]

\* the stub continue_write writes for a chapter that does not exist
StubText(stem) ==
    Text(TRUE, TRUE, TitleChars(stem) + StubMarkerChars + BodyHeadingChars + PlaceholderChars,
         PlaceholderChars, 1, 0, 0)

chapter_is_draft_stub(txt) ==
    \/ txt.marker
    \/ txt.placeholder /\ txt.effective <= MAX_STUB_EFFECTIVE_CHARS

\* A --query, by what the executor's texts take from it: its length without
\* whitespace, its length once HTML comments are dropped too, and whether it
\* carries STUB_MARKER or a line that is the placeholder.
PlotQuery == [id |-> "plot", effective |-> 6, chars |-> 6, marker |-> FALSE, placeholder |-> FALSE]

\* the query "<!-- NOVEL_FLOW_STUB -->"
MarkerQuery ==
    [id |-> "marker", effective |-> StubMarkerChars, chars |-> 0, marker |-> TRUE, placeholder |-> FALSE]

\* a query of three lines, the middle one the placeholder
PlaceholderQuery ==
    [id |-> "placeholder", effective |-> 6, chars |-> 6, marker |-> FALSE, placeholder |-> TRUE]

FlowQueries == { PlotQuery, MarkerQuery, PlaceholderQuery }

\* the texts a writer puts into a chapter file: one short paragraph of one
\* sentence, and a heading followed by a placeholder line
ShortChars == 9
ShortText(stem) == Text(FALSE, FALSE, TitleChars(stem) + ShortChars, ShortChars, 1, 0, 1)

PlaceholderText(stem) ==
    Text(FALSE, TRUE, TitleChars(stem) + PlaceholderChars, PlaceholderChars, 1, 0, 0)

WrittenTexts(stem) == { ShortText(stem), PlaceholderText(stem) }

\* failures of evaluate_quality; the ratios are compared as percentages
QualityFailures(txt, args) ==
    LET c == txt.char_count
        d == txt.dialogue_chars
    IN  (IF c < args.min_chars THEN {"char_count"} ELSE {})
        \cup (IF txt.paragraph_count < args.min_paragraphs THEN {"paragraph_count"} ELSE {})
        \cup (IF c = 0 \/ 100 * d < args.min_dialogue_pct * c THEN {"dialogue_ratio_low"} ELSE {})
        \cup (IF c # 0 /\ 100 * d > args.max_dialogue_pct * c THEN {"dialogue_ratio_high"} ELSE {})
        \cup (IF txt.sentence_count < args.min_sentences THEN {"sentence_count"} ELSE {})

evaluate_quality(txt, args) ==
    [char_count |-> txt.char_count, paragraph_count |-> txt.paragraph_count,
     dialogue_chars |-> txt.dialogue_chars, sentence_count |-> txt.sentence_count,
     failures |-> QualityFailures(txt, args),
     passed |-> QualityFailures(txt, args) = {}]

\* The seven paragraphs of generate_draft_text around an empty query, in a
\* project without character tracker and without summaries to read back
\* (protagonist and support take their default names, the hint its default).
DraftChars == 530
DraftParagraphs == 7
DraftDialogueChars == 58
DraftSentences == 20
\* the paragraph the padding loop appends
PadChars == 69
PadDialogueChars == 11
PadSentences == 2

RECURSIVE Padded(_, _)
\* while len(re.sub(r"\s+", "", text)) < min_chars: text += padding
Padded(txt, min_chars) ==
    IF txt.effective >= min_chars THEN txt
    ELSE Padded(Text(txt.marker, txt.placeholder, txt.effective + PadChars,
                     txt.char_count + PadChars, txt.paragraph_count + 1,
                     txt.dialogue_chars + PadDialogueChars,
                     txt.sentence_count + PadSentences), min_chars)

\* the query goes into the first paragraph as it is
generate_draft_text(stem, query, min_chars) ==
    Padded(Text(query.marker, query.placeholder,
                TitleChars(stem) + DraftChars + query.effective,
                DraftChars + query.chars, DraftParagraphs, DraftDialogueChars,
                DraftSentences), min_chars)

\* the paragraph improve_text_minimally appends, around an empty query
ImproveChars == 52

\* one more paragraph of one sentence that quotes the query
improve_text_minimally(txt, query) ==
    Text(txt.marker \/ query.marker, txt.placeholder \/ query.placeholder,
         txt.effective + ImproveChars + query.effective,
         txt.char_count + ImproveChars + query.chars, txt.paragraph_count + 1,
         txt.dialogue_chars + query.chars, txt.sentence_count + 1)

RECURSIVE Improved(_, _, _, _)
\* the auto-improve loop of continue_write: the text and the rounds used
Improved(txt, args, rounds, left) ==
    IF QualityFailures(txt, args) = {} \/ left = 0 THEN [text |-> txt, rounds |-> rounds]
    ELSE Improved(improve_text_minimally(txt, args.query), args, rounds + 1, left - 1)

-----------------------------------------------------------------------------
(* chapter_gate_check.py and the repairs of novel_flow_executor.py *)

\* no --chapter-file
NoFile == [dir |-> "", name |-> <<>>]

Remove(files, p) == [x \in DOMAIN files \ {p} |-> files[x]]

Put(files, p, v) == [x \in DOMAIN files \cup {p} |-> IF x = p THEN v ELSE files[x]]

\* slugify(chapter_path.stem), the directory of the chapter's gate artifacts
chapter_id(path) == slugify(Stem(path.name))

\* the *.md files of 02_knowledge_base that are named like chapters
find_misplaced_chapters(files) ==
    { p \in DOMAIN files : p.dir = KnowledgeBase /\ CHAPTER_RE(p.name) }

\* check_file over the five artifacts, which write_gate_artifacts always writes
\* together, each longer than min_bytes and publish_ready.md with its keywords:
\* they exist and none is older than the chapter
ArtifactsPass(files, artifacts, path) ==
    /\ chapter_id(path) \in DOMAIN artifacts
    /\ artifacts[chapter_id(path)] >= files[path].mtime

\* result["failures"] of chapter_gate_check.main
GateFailures(files, artifacts, path) ==
    IF path \notin DOMAIN files THEN {"chapter_missing"}
    ELSE (IF path.dir # Manuscript THEN {"chapter_storage_policy"} ELSE {})
         \cup (IF find_misplaced_chapters(files) # {}
               THEN {"knowledge_base_contains_chapter_files"} ELSE {})
         \cup (IF ArtifactsPass(files, artifacts, path) THEN {} ELSE {"gate_artifacts"})

RECURSIVE MoveTarget(_, _, _)
\* the first free name among MovedPrefix-name, MovedPrefix-1-name, ...
MoveTarget(files, name, n) ==
    LET target == <<QIAN, YI, "-">> \o (IF n = 0 THEN <<>> ELSE IntStr(n) \o <<"-">>) \o name
    IN IF File(Manuscript, target) \in DOMAIN files THEN MoveTarget(files, name, n + 1)
       ELSE File(Manuscript, target)

\* shutil.move(p, target): the file keeps its text and its mtime
Moved(files, p, target) == Put(Remove(files, p), target, files[p])

RECURSIVE MoveAll(_, _, _)
\* the loop of move_misplaced_kb_chapters over the files it found
MoveAll(files, found, moved) ==
    IF found = {} THEN [files |-> files, moved |-> moved]
    ELSE LET p == CHOOSE x \in found : TRUE
             target == MoveTarget(files, p.name, 0)
         IN MoveAll(Moved(files, p, target), found \ {p},
                    Append(moved, [kind |-> "moved_misplaced", from |-> p, to |-> target]))

move_misplaced_kb_chapters(files) == MoveAll(files, find_misplaced_chapters(files), <<>>)

\* A chapter outside 03_manuscript is moved to 03_manuscript/<stem>.md, in
\* the place of a file of that name; shutil.move raises when the chapter is
\* no longer where chapter_path says.
normalize_chapter_storage(c) ==
    IF c.path.dir = Manuscript THEN c
    ELSE IF c.path \notin DOMAIN c.files THEN [c EXCEPT !.crashed = TRUE]
    ELSE [c EXCEPT !.files = Moved(c.files, c.path, File(Manuscript, c.path.name)),
                   !.path = File(Manuscript, c.path.name),
                   !.actions = Append(@, [kind |-> "moved_chapter", from |-> c.path,
                                          to |-> File(Manuscript, c.path.name)])]

KbFixed(c, args, failures) ==
    IF "knowledge_base_contains_chapter_files" \in failures /\ args.auto_fix_kb_misplaced
    THEN [c EXCEPT !.files = move_misplaced_kb_chapters(c.files).files,
                   !.actions = @ \o move_misplaced_kb_chapters(c.files).moved]
    ELSE c

StorageFixed(c, failures) ==
    IF "chapter_storage_policy" \in failures THEN normalize_chapter_storage(c) ELSE c

ArtifactsFixed(c, failures, now) ==
    IF "gate_artifacts" \in failures /\ ~c.crashed
    THEN [c EXCEPT !.artifacts = Put(@, chapter_id(c.path), now),
                   !.actions = Append(@, [kind |-> "rebuilt_artifacts", from |-> NoFile,
                                          to |-> NoFile])]
    ELSE c

auto_fix_after_gate_failure(c, args, failures, now) ==
    ArtifactsFixed(StorageFixed(KbFixed(c, args, failures), failures), failures, now)

-----------------------------------------------------------------------------
(* novel_flow_executor.py: the continue-write command *)

MaxRuns == 2        \* continue-write commands per behaviour
MaxFlowEdits == 2   \* files a writer puts into the project per behaviour

DefaultAutoImproveRounds == 1
DefaultMinChars == 1200
DefaultMinParagraphs == 6
DefaultMinDialoguePct == 3
DefaultMaxDialoguePct == 70
DefaultMinSentences == 8

\* the command line of continue-write with every option at its default
DefaultFlowArgs(chapter_file, query) ==
    [chapter_file |-> chapter_file, query |-> query,
     auto_draft |-> TRUE, auto_improve |-> TRUE, auto_retry |-> TRUE,
     auto_fix_kb_misplaced |-> TRUE, auto_improve_rounds |-> DefaultAutoImproveRounds,
     min_chars |-> DefaultMinChars, min_paragraphs |-> DefaultMinParagraphs,
     min_dialogue_pct |-> DefaultMinDialoguePct, max_dialogue_pct |-> DefaultMaxDialoguePct,
     min_sentences |-> DefaultMinSentences]

\* the chapters continue-write is pointed at: one in 03_manuscript, one in
\* 02_knowledge_base, one in 01_analysis
FirstChapter == File(Manuscript, ChapterName(1, <<>>))
KbChapter == File(KnowledgeBase, ChapterName(3, <<>>))
AnalysisChapter == File(Analysis, ChapterName(2, <<>>))

\* --no-auto-draft --no-auto-improve on the chapter of the manuscript
Manual(auto_retry) ==
    [DefaultFlowArgs(FirstChapter, PlotQuery) EXCEPT !.auto_draft = FALSE,
                                                     !.auto_improve = FALSE,
                                                     !.auto_retry = auto_retry]

\* the command lines of continue-write
FlowArgs ==
    { DefaultFlowArgs(NoFile, PlotQuery),
      DefaultFlowArgs(FirstChapter, PlotQuery),
      DefaultFlowArgs(FirstChapter, MarkerQuery),
      DefaultFlowArgs(FirstChapter, PlaceholderQuery),
      [DefaultFlowArgs(FirstChapter, PlaceholderQuery) EXCEPT !.min_chars = 300],
      DefaultFlowArgs(KbChapter, PlotQuery),
      DefaultFlowArgs(AnalysisChapter, PlotQuery),
      [DefaultFlowArgs(FirstChapter, PlotQuery) EXCEPT !.auto_retry = FALSE],
      [DefaultFlowArgs(FirstChapter, PlotQuery) EXCEPT !.auto_fix_kb_misplaced = FALSE],
      [DefaultFlowArgs(FirstChapter, PlotQuery) EXCEPT !.auto_draft = FALSE],
      [DefaultFlowArgs(KbChapter, PlotQuery) EXCEPT !.auto_retry = FALSE],
      [Manual(FALSE) EXCEPT !.min_paragraphs = 12],
      [Manual(TRUE) EXCEPT !.min_chars = 300, !.min_paragraphs = 4, !.min_sentences = 4] }

\* the exit codes of the two plot_rag_retriever.py subprocesses
ExitCodes == { <<0, 0>>, <<1, 0>>, <<0, 1>> }

ManuscriptFiles(files) == { p \in DOMAIN files : p.dir = Manuscript }

\* "第{next_no}章-{title}.md" after the latest chapter of the manuscript
next_chapter_filename(files, title) ==
    ChapterName(Max({ chapter_no_from_name(p.name) : p \in ManuscriptFiles(files) }) + 1, title)

ChapterPath(files, args) ==
    IF args.chapter_file # NoFile THEN args.chapter_file
    ELSE File(Manuscript, next_chapter_filename(files, DefaultTitle))

\* continue_write before it has touched the chapter
Started(files, artifacts, args) ==
    [files |-> files, artifacts |-> artifacts, path |-> ChapterPath(files, args),
     actions |-> <<>>, crashed |-> FALSE, created |-> FALSE, drafted |-> FALSE,
     draft_mode |-> FALSE, quality_before |-> <<>>, quality_after |-> <<>>, rounds |-> 0,
     gates |-> 0, first_gate |-> {}, gate_passed |-> FALSE]

\* lines 599-605: a chapter that does not exist becomes a stub
StubCreated(c, now) ==
    IF c.path \in DOMAIN c.files THEN c
    ELSE [c EXCEPT !.created = TRUE,
                   !.files = Put(@, c.path, [text |-> StubText(Stem(c.path.name)),
                                             mtime |-> now])]

\* continue_write, had it left the stub as it is
Drafted_skipped(c, args, now) == c

\* lines 607-611: a stub is overwritten by the generated draft
Drafted(c, args, now) ==
    IF chapter_is_draft_stub(c.files[c.path].text) /\ args.auto_draft
    THEN [c EXCEPT !.drafted = TRUE,
                   !.files = Put(@, c.path,
                                 [text |-> generate_draft_text(Stem(c.path.name), args.query,
                                                               args.min_chars),
                                  mtime |-> now])]
    ELSE c

\* lines 613-626
Assessed(c, args) ==
    [c EXCEPT !.draft_mode = chapter_is_draft_stub(c.files[c.path].text),
              !.quality_before = evaluate_quality(c.files[c.path].text, args),
              !.quality_after = evaluate_quality(c.files[c.path].text, args)]

\* what the loop of lines 628-633 leaves
Rewritten(c, args, now, improved) ==
    [c EXCEPT !.files = Put(@, c.path, [text |-> improved.text, mtime |-> now]),
              !.quality_after = evaluate_quality(improved.text, args),
              !.rounds = improved.rounds]

\* lines 627-633
AutoImproved(c, args, now) ==
    IF ~c.draft_mode /\ args.auto_improve /\ ~c.quality_before.passed
          /\ args.auto_improve_rounds > 0
    THEN Rewritten(c, args, now,
                   Improved(c.files[c.path].text, args, 0, args.auto_improve_rounds))
    ELSE c

\* lines 642-645: the gate artifacts are written, then the gate is checked
Gated(c, now) ==
    IF c.draft_mode THEN c
    ELSE [c EXCEPT !.artifacts = Put(@, chapter_id(c.path), now),
                   !.gates = 1,
                   !.first_gate =
                       GateFailures(c.files, Put(c.artifacts, chapter_id(c.path), now), c.path),
                   !.gate_passed =
                       GateFailures(c.files, Put(c.artifacts, chapter_id(c.path), now),
                                    c.path) = {}]

\* lines 657-659: the gate is checked again when a repair was made
Regated(c) ==
    IF c.crashed \/ c.actions = <<>> THEN c
    ELSE [c EXCEPT !.gates = 2,
                   !.gate_passed = GateFailures(c.files, c.artifacts, c.path) = {}]

\* lines 647-659
Retried(c, args, now) ==
    IF c.draft_mode \/ c.gate_passed \/ ~args.auto_retry THEN c
    ELSE Regated(auto_fix_after_gate_failure(c, args, c.first_gate, now))

\* continue_write up to the index build
continue_write(files, artifacts, args, now) ==
    Retried(Gated(AutoImproved(Assessed(Drafted(StubCreated(Started(files, artifacts, args),
                                                           now),
                                                args, now),
                                        args),
                               args, now),
                  now),
            args, now)

\* the JSON object continue_write returns (lines 670-690), by the keys the
\* properties read
Payload(c, q_code, b_code) ==
    [ok |-> q_code = 0 /\ b_code = 0 /\ (c.draft_mode \/ c.gate_passed),
     chapter_file |-> c.path,
     created_chapter_stub |-> c.created,
     auto_draft_applied |-> c.drafted,
     awaiting_draft |-> c.draft_mode,
     quality_before |-> c.quality_before,
     quality_after |-> c.quality_after,
     auto_improve_rounds_used |-> c.rounds,
     gate_result |-> IF c.gates = 0 THEN "None" ELSE IF c.gate_passed THEN "passed" ELSE "failed",
     gate_passed_final |-> c.gate_passed,
     auto_retry_actions |-> c.actions]

\* whether this command repeats the previous one: same chapter file, same
\* query, the previous one succeeded and nothing was written in between
Repeats(f, args) ==
    /\ f.last.ran /\ ~f.last.crashed /\ ~f.changed
    /\ f.last.payload.ok
    /\ args.chapter_file # NoFile
    /\ args.chapter_file = f.last.args.chapter_file
    /\ args.chapter_file = f.last.payload.chapter_file
    /\ args.query = f.last.args.query

\* the project and the report after continue_write came to c; an exception
\* leaves the files as they were when it was raised, and no JSON object
Ran(f, args, codes, c) ==
    [files |-> c.files, artifacts |-> c.artifacts, clock |-> f.clock + 1,
     runs |-> f.runs + 1, edits |-> f.edits, changed |-> FALSE,
     last |-> [ran |-> TRUE, crashed |-> c.crashed, args |-> args, codes |-> codes,
               payload |-> IF c.crashed THEN <<>> ELSE Payload(c, codes[1], codes[2]),
               before |-> f.files, first_gate |-> c.first_gate, gates |-> c.gates,
               repeated |-> Repeats(f, args)]]

\* novel_flow_executor.py continue-write; the two retriever subprocesses
\* enter by their exit codes, the index they write is the one Build models
ContinueWrite(args, codes) ==
    /\ flow.runs < MaxRuns
    /\ flow' = Ran(flow, args, codes,
                   continue_write(flow.files, flow.artifacts, args, flow.clock + 1))
    /\ UNCHANGED <<chapters, registry, index, sidecars, built, fresh, pure, restamped,
                   edits, last, cache, cache_form, queries, lastq, running, passages, entity_chapter_map, snippets>>

\* the files a writer puts into the project: a chapter of the manuscript and
\* a chapter-named file in the knowledge base
WriterFiles == { File(Manuscript, ChapterName(1, <<>>)), File(KnowledgeBase, ChapterName(9, <<>>)) }

\* a writer writes a file of the project
PutFile(p, txt) ==
    /\ flow.edits < MaxFlowEdits
    /\ flow' = [flow EXCEPT !.files = Put(@, p, [text |-> txt, mtime |-> flow.clock + 1]),
                            !.clock = @ + 1, !.edits = @ + 1, !.changed = TRUE]
    /\ UNCHANGED <<chapters, registry, index, sidecars, built, fresh, pure, restamped,
                   edits, last, cache, cache_form, queries, lastq, running, passages, entity_chapter_map, snippets>>

InitF ==
    /\ chapters = [f \in ChapterFiles |-> NoChapter]
    /\ registry = {}
    /\ index = NoIndex
    /\ sidecars = [s \in Slugs |-> NoSidecar]
    /\ built = NotBuilt
    /\ fresh = FALSE
    /\ pure = TRUE
    /\ restamped = FALSE
    /\ edits = 0
    /\ last = NoReport("init")
    /\ cache = <<>>
    /\ cache_form = "object"
    /\ queries = 0
    /\ lastq = [cur |-> NoQuery, prev |-> NoQuery, consecutive |-> FALSE]
    /\ running = NoneRunning
    /\ flow = NoFlow
    /\ passages = NoPassages
    /\ entity_chapter_map = NoEntityMap
    /\ snippets = NoSnippets

NextF ==
    \/ \E args \in FlowArgs, codes \in ExitCodes : ContinueWrite(args, codes)
    \/ \E p \in WriterFiles : \E txt \in WrittenTexts(Stem(p.name)) : PutFile(p, txt)

\* continue-write commands and a writer's files on a project that starts bare
SpecF == InitF /\ [][NextF]_vars

-----------------------------------------------------------------------------
(* Properties of build_index *)

\* the last operation was a build that completed
Built == last.op = "build" /\ last.ok

\* the chapters whose mtime differs from the one the previous build saw
Touched ==
    { f \in ChapterFiles : /\ last.old_built.chapters[f].exists
                           /\ chapters[f].exists
                           /\ last.old_built.chapters[f].mtime # chapters[f].mtime }

\* the same chapter files exist as at the previous build
SameFiles == \A f \in ChapterFiles : last.old_built.chapters[f].exists = chapters[f].exists

\* the build started from the snapshot the previous build wrote
FromFreshIndex == last.old_fresh /\ last.old_built.valid

\* C1: an incremental build that directly follows a completed build, with no
\* change in between, reports rebuilt_docs = 0 and the chapter_count the
\* previous build reported.
C1_IdempotentBuild ==
    (Built /\ last.incremental /\ last.follows_build)
        => /\ index.rebuilt_docs = 0
           /\ index.chapter_count = last.prev_count

C1_Witness ==
    /\ Built /\ last.incremental /\ last.follows_build
    /\ index.chapter_count = Cardinality(ChapterFiles)
    /\ last.old_index.rebuilt_docs = Cardinality(ChapterFiles)

\* C2: from a freshly built index, when exactly one chapter's mtime has
\* changed, the same files exist and the registry is the same, the next
\* incremental build rebuilds exactly that chapter and reuses every other.
C2_SingleChapterInvalidation ==
    (/\ Built /\ last.incremental /\ FromFreshIndex
     /\ SameFiles
     /\ registry = last.old_built.registry
     /\ Cardinality(Touched) = 1)
        => /\ index.rebuilt_docs = 1
           /\ last.rebuilt_files = Touched
           /\ last.reused_files = Present \ Touched

C2_Witness ==
    /\ Built /\ last.incremental /\ FromFreshIndex /\ SameFiles
    /\ registry = last.old_built.registry
    /\ Cardinality(Touched) = 1
    /\ Cardinality(Present) = Cardinality(ChapterFiles)

\* C3: from a freshly built index, when the registry's set of names has
\* changed, the next incremental build rebuilds every document, also those
\* whose mtime is unchanged: rebuilt_docs = chapter_count and reused_docs = 0.
C3_RegistryInvalidation ==
    (Built /\ last.incremental /\ FromFreshIndex /\ registry # last.old_built.registry)
        => /\ index.rebuilt_docs = index.chapter_count
           /\ index.reused_docs = 0
           /\ last.rebuilt_files = Present

C3_Witness ==
    /\ Built /\ last.incremental /\ FromFreshIndex
    /\ registry # last.old_built.registry
    /\ SameFiles /\ Touched = {}
    /\ index.chapter_count = Cardinality(ChapterFiles)

\* the prior snapshot was readable: an object whose entries are objects with
\* a numeric mtime
PriorReadable ==
    /\ last.old_index.exists
    /\ last.old_index.kind = "object"
    /\ \A k \in 1..Len(last.old_index.docs) :
           last.old_index.docs[k].dict /\ last.old_index.docs[k].mtime_ok

\* the prior snapshot carries the signature the build computed
PriorSigEqual ==
    last.old_index.has_sig /\ last.old_index.character_sig = index.character_sig

\* the prior snapshot has an entry for f with the file's current mtime
PriorMtimeEqual(f) ==
    \E k \in 1..Len(last.old_index.docs) :
        /\ last.old_index.docs[k].chapter_file = f
        /\ last.old_index.docs[k].mtime = chapters[f].mtime

\* C4: in an incremental build over a readable prior snapshot a chapter is
\* reused if and only if the prior snapshot's entity signature equals the
\* current one and the entry's mtime equals the file's; in every other case,
\* a prior snapshot without signature included, it is rebuilt.
C4_ReuseRule ==
    (Built /\ last.incremental /\ PriorReadable)
        => \A f \in Present :
              /\ (f \in last.reused_files) <=> (PriorSigEqual /\ PriorMtimeEqual(f))
              /\ (f \in last.rebuilt_files) <=> ~(PriorSigEqual /\ PriorMtimeEqual(f))

\* the chapters that existed at the previous build and are gone now
Deleted ==
    { f \in ChapterFiles : /\ last.old_built.valid
                           /\ last.old_built.chapters[f].exists
                           /\ ~chapters[f].exists }

\* C7: after a chapter file was deleted and a build ran, the snapshot has no
\* document for the chapter and the chapter's sidecar file is gone.
C7_OrphanCleanup ==
    Built => \A f \in Deleted :
                /\ \A k \in 1..Len(index.docs) : index.docs[k].chapter_file # f
                /\ ~sidecars[slugify(Stem(f))].exists

\* C8: right after a build every document of the snapshot names a sidecar
\* file that exists on disk.
C8_SidecarExists ==
    Built => \A k \in 1..Len(index.docs) :
                /\ index.docs[k].meta_file \in Slugs
                /\ sidecars[index.docs[k].meta_file].exists

\* a build that reused a document whose sidecar had been deleted
C8_Witness ==
    /\ Built /\ last.incremental
    /\ last.rebuilt_files # {}
    /\ \E k \in 1..Len(index.docs) :
           /\ index.docs[k].chapter_file \in last.reused_files
           /\ ~last.old_side[index.docs[k].meta_file].exists

\* the registry names that occur in the chapter's text
EntitiesOf(f) == { n \in registry : Contains(n, chapters[f].text) }

SeqSet(q) == { q[k] : k \in 1..Len(q) }

\* C9 as stated: after chapter writes that each change the file's mtime,
\* registry edits and builds, right after a build every document's stored
\* entity set is the set of current registry names in the chapter's text.
C9_NoStaleEntities_AsStated ==
    (Built /\ pure)
        => \A k \in 1..Len(index.docs) :
              SeqSet(index.docs[k].entities) = EntitiesOf(index.docs[k].chapter_file)

\* C9: after chapter writes none of which gave a chapter the mtime it was
\* indexed with together with another text, registry edits and builds, right
\* after a build every document's stored entity set is the set of current
\* registry names that occur in the chapter's current text.
C9_NoStaleEntities ==
    (Built /\ pure /\ ~restamped)
        => \A k \in 1..Len(index.docs) :
              SeqSet(index.docs[k].entities) = EntitiesOf(index.docs[k].chapter_file)

\* an incremental build after a registry edit that changes a stored entity set
C9_Witness ==
    /\ Built /\ pure /\ ~restamped /\ last.incremental /\ FromFreshIndex
    /\ Touched = {} /\ SameFiles
    /\ \E k \in 1..Len(index.docs) : \E j \in 1..Len(last.old_index.docs) :
           /\ index.docs[k].chapter_file = last.old_index.docs[j].chapter_file
           /\ index.docs[k].entities # last.old_index.docs[j].entities

\* the prior snapshot file was corrupt: unparsable, no object, or holding a
\* malformed document entry
PriorCorrupt ==
    /\ last.old_index.exists
    /\ \/ last.old_index.kind # "object"
       \/ \E k \in 1..Len(last.old_index.docs) :
              ~last.old_index.docs[k].dict \/ ~last.old_index.docs[k].mtime_ok

\* C10: an incremental build over a corrupt prior snapshot does not fail and
\* rebuilds every document, as if there were no prior snapshot.
C10_CorruptSnapshotRebuilds ==
    (last.op = "build" /\ last.incremental /\ PriorCorrupt)
        => /\ last.ok
           /\ index.rebuilt_docs = index.chapter_count
           /\ last.rebuilt_files = Present

\* C5: a query answered from the cache returns a result that was computed
\* from a snapshot identical to the one the query runs against.
C5_CacheValidity ==
    (lastq.cur.ok /\ lastq.cur.cache_hit)
        => lastq.cur.served_from = lastq.cur.docs_used

\* the query command has run twice with the same query and parameters, caching
\* enabled, and both runs read the same index snapshot
SameQueryTwice ==
    /\ lastq.prev.ran /\ lastq.prev.ok
    /\ lastq.cur.ran
    /\ lastq.cur.args = lastq.prev.args
    /\ lastq.cur.args.use_cache
    /\ lastq.cur.docs_used = lastq.prev.docs_used

\* the second run reports a cache hit and the ranked list of the first
SecondRunHits ==
    /\ lastq.cur.ok
    /\ lastq.cur.cache_hit
    /\ lastq.cur.result.retrieved = lastq.prev.result.retrieved

C11_CorruptSnapshotOnQuery ==
    (/\ last.op = "query"
     /\ lastq.cur.index_garbage
     /\ ~lastq.cur.args.auto_build)
        => /\ lastq.cur.ok
           /\ index.kind = "object"
           /\ index.rebuilt_docs = index.chapter_count

\* the last operation was a query that got its index, was not skipped and
\* could read every document of the index
QueryWentOn ==
    /\ last.op = "query"
    /\ lastq.cur.ran
    /\ lastq.cur.trigger.reason # <<>>
    /\ \/ lastq.cur.trigger.should_trigger
       \/ lastq.cur.args.force
       \/ ~lastq.cur.args.conditional
    /\ DocsReadable(index)

\* C12: a query with caching enabled that finds a cache file that cannot be
\* parsed, holds no object, or holds an object whose entries are no object,
\* treats the cache as empty, runs the retrieval and ends successfully.
C12_MalformedCache ==
    (/\ QueryWentOn
     /\ lastq.cur.args.use_cache
     /\ lastq.cur.cache_form # "object")
        => /\ lastq.cur.ok
           /\ ~lastq.cur.cache_hit
           /\ lastq.cur.ranking.ran

\* C13: after a query has written the cache file, the file holds at most
\* max_entries entries, and no entry it kept was saved earlier than an entry
\* it dropped.
C13_CacheCapacity ==
    (last.op = "query" /\ lastq.cur.cache_written)
        => /\ EntryCount(cache) <= max_entries
           /\ \A k \in 1..Len(cache) : \A d \in 1..Len(lastq.cur.dropped) :
                  cache[k].saved_at >= lastq.cur.dropped[d].saved_at

\* a write that dropped an older entry and kept the newer one it added
C13_Witness ==
    /\ last.op = "query" /\ lastq.cur.cache_written
    /\ EntryCount(cache) = max_entries
    /\ \E k \in 1..Len(cache) : \E d \in 1..Len(lastq.cur.dropped) :
           cache[k].saved_at > lastq.cur.dropped[d].saved_at

\* the larger of two numbers
Larger(a, b) == IF a > b THEN a ELSE b

\* the last step was a query whose retrieval ran (no cache hit, no skip)
Ranked == last.op = "query" /\ lastq.cur.ran /\ lastq.cur.ranking.ran

\* the documents of the final list are documents of the coarse pool, and the
\* pool is no larger than the corpus
PoolContains ==
    /\ SeqSet(lastq.cur.ranking.picked) \subseteq SeqSet(lastq.cur.ranking.pool)
    /\ Len(lastq.cur.ranking.picked) <= Len(lastq.cur.ranking.pool)
    /\ SeqSet(lastq.cur.ranking.pool)
           \subseteq { lastq.cur.ranking.coarse[k].chapter_file :
                          k \in 1..Len(lastq.cur.ranking.coarse) }
    /\ Len(lastq.cur.ranking.pool) <= Len(lastq.cur.ranking.coarse)
    /\ Len(lastq.cur.ranking.coarse) = Len(index.docs)

Falling(list) == \A k \in 1..(Len(list) - 1) : list[k].s >= list[k + 1].s

\* a list of scored entries whose scores fall somewhere
FallsSomewhere(list) == \E k \in 1..(Len(list) - 1) : list[k].s > list[k + 1].s

\* C15: in every retrieval the coarse-ranked list is non-increasing in coarse
\* score, the fine-ranked list is non-increasing in fine score, and so is the
\* ranked list the query returns.
C15_ScoreOrdering ==
    Ranked =>
        /\ Falling(lastq.cur.ranking.coarse)
        /\ Falling(lastq.cur.ranking.fine)
        /\ \A k \in 1..(Len(lastq.cur.result.retrieved) - 1) :
               lastq.cur.result.retrieved[k].score.num
                   >= lastq.cur.result.retrieved[k + 1].score.num

\* a retrieval over documents of differing coarse and differing fine scores
C15_Witness ==
    /\ Ranked
    /\ FallsSomewhere(lastq.cur.ranking.coarse)
    /\ FallsSomewhere(lastq.cur.ranking.fine)
    /\ Len(lastq.cur.result.retrieved) >= 2

\* the query held in q is one the trigger check decided not to retrieve for
DecidedToSkip(q) ==
    /\ q.ran /\ q.trigger.reason # <<>>
    /\ q.args.conditional /\ ~q.args.force /\ ~q.trigger.should_trigger

\* C16: a query the trigger check decides not to retrieve for (conditional
\* mode on, no force) looks nothing up in the cache and writes nothing to it,
\* and returns, with exit status 0, a result with skipped = true, cache_hit =
\* false, an empty ranked list and empty relation snippets.
C16_SkippedQueryLeavesCache ==
    [][(queries' # queries /\ DecidedToSkip(lastq'.cur))
          => /\ cache' = cache /\ cache_form' = cache_form
             /\ ~lastq'.cur.cache_looked_up /\ ~lastq'.cur.cache_written
             /\ lastq'.cur.ok /\ lastq'.cur.skipped /\ ~lastq'.cur.cache_hit
             /\ lastq'.cur.result.retrieved = <<>>
             /\ lastq'.cur.result.relation_snippets = <<>>]_vars

\* a skipped query over a cache that holds entries, for a query that names an
\* entity of a registry edited since
C16_Witness ==
    /\ last.op = "query" /\ DecidedToSkip(lastq.cur)
    /\ lastq.cur.skipped /\ cache # <<>>

\* C17: a query that ends up skipped by the trigger check neither reads nor
\* builds the index snapshot.
C17_SkippedQueryLeavesIndex ==
    (last.op = "query" /\ DecidedToSkip(lastq.cur) /\ lastq.cur.skipped)
        => lastq.cur.skipped_index = "none"

\* the last step was a query that reached the trigger check
Checked == last.op = "query" /\ lastq.cur.ran /\ lastq.cur.trigger.reason # <<>>

\* the query of the last step, normalized
AskedFor == normalize_query(lastq.cur.args.query)

EntityAsked == \E n \in registry : Contains(n, AskedFor)

PlotKeywordAsked == \E k \in TRIGGER_KEYWORDS : Contains(k, AskedFor)

LightKeywordAsked == \E k \in LIGHT_SCENE_KEYWORDS : Contains(k, AskedFor)

\* C18: should_trigger is true exactly when a known entity occurs in the
\* query, or a plot keyword occurs in it, or the normalized query has at least
\* 18 characters and no light-scene keyword occurs in it; a query shorter than
\* 18 with no entity and no plot keyword does not trigger, a query with a plot
\* keyword triggers, and the reason list is never empty.
C18_TriggerDecision ==
    Checked =>
        /\ lastq.cur.trigger.should_trigger
               <=> \/ EntityAsked
                   \/ PlotKeywordAsked
                   \/ (Len(AskedFor) >= LongQueryChars /\ ~LightKeywordAsked)
        /\ (Len(AskedFor) < LongQueryChars /\ ~EntityAsked /\ ~PlotKeywordAsked)
               => ~lastq.cur.trigger.should_trigger
        /\ PlotKeywordAsked => lastq.cur.trigger.should_trigger
        /\ Len(lastq.cur.trigger.reason) >= 1

\* a query of 18 characters as typed and 17 when normalized, with no entity
\* and no keyword, that did not trigger
C18_Witness ==
    /\ Checked
    /\ Len(lastq.cur.args.query) >= LongQueryChars
    /\ Len(AskedFor) < LongQueryChars
    /\ ~EntityAsked /\ ~PlotKeywordAsked /\ ~LightKeywordAsked
    /\ ~lastq.cur.trigger.should_trigger

\* the length of the ellipsis marker "..."
EllipsisChars == 3

\* the last step was a query that returned a ranked list, computed or cached
Returned == last.op = "query" /\ lastq.cur.ran /\ lastq.cur.ok /\ ~lastq.cur.skipped

C20_EmptyCorpus ==
    /\ (Present = {} /\ last.op = "build")
           => /\ last.ok /\ index.kind = "object"
              /\ index.docs = <<>> /\ index.chapter_count = 0
    /\ (Present = {} /\ last.op = "query")
           => /\ lastq.cur.ran /\ lastq.cur.ok /\ ~lastq.cur.skipped
              /\ index.kind = "object" /\ index.docs = <<>>
              /\ lastq.cur.result.retrieved = <<>>
              /\ lastq.cur.result.docs_total = 0
              /\ lastq.cur.result.candidate_pool = 0
              /\ lastq.cur.result.rerank_topk = 0

\* a retrieval that ran over the snapshot a build made of no chapter file
C20_Witness ==
    /\ Present = {} /\ Ranked /\ lastq.cur.ok
    /\ built.valid /\ index.docs = <<>>
    /\ lastq.cur.result.docs_total = 0

\* the last step was a build that wrote a snapshot
Wrote == last.op = "build" /\ last.ok /\ index.kind = "object"

\* C21: in every snapshot a build writes the documents are listed in
\* non-decreasing chapter ordinal, ties ordered by file name, and each
\* document's ordinal is the number parsed from its file name (0 when the
\* name has none).
C21_PersistedOrder ==
    Wrote =>
        /\ \A k \in 1..(Len(index.docs) - 1) :
               \/ index.docs[k].chapter_no < index.docs[k + 1].chapter_no
               \/ /\ index.docs[k].chapter_no = index.docs[k + 1].chapter_no
                  /\ LexLess(index.docs[k].chapter_file, index.docs[k + 1].chapter_file)
        /\ \A k \in 1..Len(index.docs) :
               index.docs[k].chapter_no = parse_chapter_no(index.docs[k].chapter_file)

\* a snapshot of three documents, reused and rebuilt ones, with and without a
\* chapter number in the name
C21_Witness ==
    /\ Wrote
    /\ Len(index.docs) = 3
    /\ index.reused_docs >= 1 /\ index.rebuilt_docs >= 1
    /\ index.docs[1].chapter_no = 0 /\ index.docs[3].chapter_no = 2

\* C24: after any build, distinct chapter files of the snapshot reference
\* distinct sidecar files, each at chapter_meta/<slug of the chapter's
\* stem>.meta.json, and each sidecar's chapter_file names the chapter that
\* references it.
C24_OneSidecarPerChapter ==
    Built =>
        /\ \A k, j \in 1..Len(index.docs) :
               index.docs[k].chapter_file # index.docs[j].chapter_file
                   => index.docs[k].meta_file # index.docs[j].meta_file
        /\ \A k \in 1..Len(index.docs) :
               /\ index.docs[k].meta_file = slugify(Stem(index.docs[k].chapter_file))
               /\ sidecars[index.docs[k].meta_file].exists
               /\ sidecars[index.docs[k].meta_file].chapter_file
                      = index.docs[k].chapter_file

\* the documents the last build reused although the sidecar they name was
\* not on disk
ReusedWithoutSidecar ==
    { k \in 1..Len(index.docs) :
        /\ index.docs[k].chapter_file \in last.reused_files
        /\ ~last.old_side[MetaPathOf[index.docs[k].chapter_file]].exists }

\* C30: when a document is reusable but its sidecar file is missing on disk,
\* the build recreates the sidecar from the chapter as it is now, and counts
\* the document as reused, not rebuilt.
C30_MissingSidecarOfReused ==
    (Built /\ last.incremental) =>
        /\ index.reused_docs = Cardinality(last.reused_files)
        /\ index.rebuilt_docs = Cardinality(last.rebuilt_files)
        /\ last.reused_files \cap last.rebuilt_files = {}
        /\ \A k \in ReusedWithoutSidecar :
               /\ index.docs[k].meta_file = MetaPathOf[index.docs[k].chapter_file]
               /\ sidecars[index.docs[k].meta_file].exists
               /\ \E g \in Present :
                      /\ MetaPathOf[g] = index.docs[k].meta_file
                      /\ sidecars[index.docs[k].meta_file]
                             = ChapterMeta(g, load_character_names(registry))

\* a build that rebuilt nothing and reused a document whose sidecar had been
\* deleted
C30_Witness ==
    /\ Built /\ last.incremental
    /\ ReusedWithoutSidecar # {}
    /\ index.rebuilt_docs = 0
    /\ index.reused_docs = Len(index.docs)

\* the registry entities the query of the last step contains
QueryEntities == { n \in registry : Contains(n, lastq.cur.args.query) }

\* the document of the snapshot stored for a chapter file
DocOf(f) == index.docs[CHOOSE k \in 1..Len(index.docs) : index.docs[k].chapter_file = f]

\* the number of query entities a document's stored entity set contains
EntityOverlap(d) == Cardinality(QueryEntities \cap SeqSet(d.entities))

\* the two documents are equal in every scored attribute but the entities
OtherwiseEqual(d, e) ==
    /\ d.chapter_no = e.chapter_no
    /\ Cardinality(SeqSet(tokenize(lastq.cur.args.query)) \cap SeqSet(d.keywords))
           = Cardinality(SeqSet(tokenize(lastq.cur.args.query)) \cap SeqSet(e.keywords))
    /\ Cardinality(SeqSet(tokenize(lastq.cur.args.query)) \cap SeqSet(tokenize(d.summary)))
           = Cardinality(SeqSet(tokenize(lastq.cur.args.query)) \cap SeqSet(tokenize(e.summary)))

\* C22: for a query containing a registry entity, a document whose stored
\* entity set contains that entity gets a non-zero entity overlap in the
\* coarse pass (a coarse score of at least 4 for it), and it is ranked
\* strictly above any document that has no entity overlap and is otherwise
\* equal in every scored attribute, whenever both appear in the result.
C22_EntityOverlapRanksHigher ==
    (Ranked /\ lastq.cur.ok) =>
        /\ \A k \in 1..Len(lastq.cur.ranking.coarse) :
               EntityOverlap(DocOf(lastq.cur.ranking.coarse[k].chapter_file)) > 0
                   => lastq.cur.ranking.coarse[k].s
                          >= 40 * EntityOverlap(DocOf(lastq.cur.ranking.coarse[k].chapter_file))
        /\ \A i, j \in 1..Len(lastq.cur.result.retrieved) :
               (/\ EntityOverlap(DocOf(lastq.cur.result.retrieved[i].chapter_file)) > 0
                /\ EntityOverlap(DocOf(lastq.cur.result.retrieved[j].chapter_file)) = 0
                /\ OtherwiseEqual(DocOf(lastq.cur.result.retrieved[i].chapter_file),
                                  DocOf(lastq.cur.result.retrieved[j].chapter_file)))
                   => /\ i < j
                      /\ lastq.cur.result.retrieved[i].score.num
                             > lastq.cur.result.retrieved[j].score.num

\* a result that holds a document with the query's entity below which comes
\* a document without it, of the same chapter number and the same words, that
\* precedes it in the snapshot
C22_Witness ==
    /\ Ranked /\ lastq.cur.ok
    /\ \E i, j \in 1..Len(lastq.cur.result.retrieved) :
           /\ EntityOverlap(DocOf(lastq.cur.result.retrieved[i].chapter_file)) > 0
           /\ EntityOverlap(DocOf(lastq.cur.result.retrieved[j].chapter_file)) = 0
           /\ OtherwiseEqual(DocOf(lastq.cur.result.retrieved[i].chapter_file),
                             DocOf(lastq.cur.result.retrieved[j].chapter_file))
           /\ i < j
           /\ LexLess(lastq.cur.result.retrieved[j].chapter_file,
                      lastq.cur.result.retrieved[i].chapter_file)

\* the keys of the entries the cache file holds
CachedKeys == { cache[k].key : k \in 1..Len(cache) }

\* both concurrent queries missed the cache, each with its own key, and both
\* have written the file
BothSaved ==
    /\ \A p \in Procs : running[p].pc = "saved"
    /\ running[1].key # running[2].key

\* neither query had the other's entry in the cache it loaded
NeitherSawOther ==
    \A p, q \in Procs :
        p # q => \A k \in 1..Len(running[p].items) :
                     running[p].items[k].key # running[q].key

\* C23: two query commands run at the same time without serialization, each
\* missing the cache with its own key: when each loads the cache file before
\* the other overwrites it, the file holds only one of the two new entries
\* afterwards, and when one loads after the other has written, it holds both.
C23_LostCacheUpdate ==
    BothSaved =>
        IF NeitherSawOther
        THEN Cardinality({ p \in Procs : running[p].key \in CachedKeys }) = 1
        ELSE \A p \in Procs : running[p].key \in CachedKeys

\* the interleaving after which one of the two new entries is lost
C23_Witness ==
    /\ BothSaved /\ NeitherSawOther
    /\ Cardinality({ p \in Procs : running[p].key \in CachedKeys }) = 1
    /\ Len(cache) = 1

-----------------------------------------------------------------------------
(* Properties of continue-write *)

\* a continue-write has just ended: nothing was written since
JustRan == flow.last.ran /\ ~flow.changed

\* a continue-write has just ended and returned its JSON object
Reported == JustRan /\ ~flow.last.crashed

\* the chapter the last continue-write was pointed at
TargetBefore == ChapterPath(flow.last.before, flow.last.args)

\* the chapter existed when the last continue-write started
OnExistingChapter == TargetBefore \in DOMAIN flow.last.before

\* the chapter of the report holds the text the chapter held before the command
ChapterUnchanged ==
    /\ flow.last.payload.chapter_file \in DOMAIN flow.files
    /\ flow.files[flow.last.payload.chapter_file].text = flow.last.before[TargetBefore].text

\* C25: whenever continue-write on an existing chapter file ends with ok = false,
\* the chapter file's content after the call is identical to its content before
\* the call, and the result reports rollback_applied = true.
C25_RollbackOnFailure ==
    (Reported /\ OnExistingChapter /\ ~flow.last.payload.ok) =>
        /\ ChapterUnchanged
        /\ "rollback_applied" \in DOMAIN flow.last.payload
        /\ flow.last.payload.rollback_applied

\* C26: when continue-write is repeated with the same chapter file and the same
\* query on a project that has not changed since the previous successful run,
\* the repeated run succeeds and reports idempotent_hit = true instead of
\* redoing the work.
C26_IdempotentRepeat ==
    (JustRan /\ flow.last.repeated) =>
        /\ ~flow.last.crashed
        /\ flow.last.payload.ok
        /\ "idempotent_hit" \in DOMAIN flow.last.payload
        /\ flow.last.payload.idempotent_hit

\* the chapter-named files that lay in 02_knowledge_base when the last
\* continue-write checked the gate: those of before, and its own chapter
MisplacedAtGate ==
    find_misplaced_chapters(flow.last.before)
        \cup (IF TargetBefore.dir = KnowledgeBase /\ CHAPTER_RE(TargetBefore.name)
              THEN {TargetBefore} ELSE {})

\* the last continue-write, with auto-retry and the knowledge-base repair on,
\* took a chapter that was no draft to the gate, and the gate failed on
\* chapter-named files in 02_knowledge_base
GateFailedOnKb ==
    /\ JustRan
    /\ flow.last.args.auto_retry /\ flow.last.args.auto_fix_kb_misplaced
    /\ flow.last.gates >= 1
    /\ "knowledge_base_contains_chapter_files" \in flow.last.first_gate

\* every file of MisplacedAtGate has an action that records its move to a
\* name of 03_manuscript that was free before
MovesRecorded ==
    \A p \in MisplacedAtGate :
        \E k \in 1..Len(flow.last.payload.auto_retry_actions) :
            LET a == flow.last.payload.auto_retry_actions[k]
            IN /\ a.kind = "moved_misplaced" /\ a.from = p
               /\ a.to.dir = Manuscript
               /\ a.to \notin DOMAIN flow.last.before
               /\ a.to \in DOMAIN flow.files

\* the files 03_manuscript held before are still there, with their text,
\* but for the chapter the command works on
NothingOverwritten ==
    \A p \in ManuscriptFiles(flow.last.before) :
        p # TargetBefore => p \in DOMAIN flow.files /\ flow.files[p].text = flow.last.before[p].text

\* C27: when continue-write (auto-retry and knowledge-base auto-fix enabled)
\* processes a non-draft chapter and the gate fails because chapter-named files
\* lie in 02_knowledge_base, every such file is moved into 03_manuscript without
\* overwriting an existing file, the gate is re-run, the move is recorded in
\* auto_retry_actions, and afterwards no chapter-named file remains in
\* 02_knowledge_base and the run ends with gate_passed_final = true.
C27_MisplacedChapterRepair ==
    GateFailedOnKb =>
        /\ ~flow.last.crashed
        /\ MovesRecorded
        /\ NothingOverwritten
        /\ flow.last.gates = 2
        /\ find_misplaced_chapters(flow.files) = {}
        /\ flow.last.payload.gate_passed_final

\* the last continue-write had auto-draft on and was pointed at a chapter
\* that was missing or a placeholder stub
DraftRequested ==
    /\ JustRan
    /\ flow.last.args.auto_draft
    /\ OnExistingChapter => chapter_is_draft_stub(flow.last.before[TargetBefore].text)

\* the text generate_draft_text gives for the last command is no stub
DraftIsText ==
    ~chapter_is_draft_stub(generate_draft_text(Stem(TargetBefore.name), flow.last.args.query,
                                               flow.last.args.min_chars))

\* both retriever subprocesses of the last command exited with 0
RetrieverSucceeded == flow.last.codes = <<0, 0>>

\* the last command repairs a knowledge base that holds chapter-named files
KbRepairOn == flow.last.args.auto_retry /\ flow.last.args.auto_fix_kb_misplaced

Baseline == {"char_count", "paragraph_count", "sentence_count"}

\* the last continue-write, with auto-retry on, took to the gate a chapter
\* that was no draft and failed the quality baseline
BelowBaseline ==
    /\ Reported
    /\ flow.last.args.auto_retry
    /\ ~flow.last.payload.awaiting_draft
    /\ flow.last.payload.quality_after.failures \cap Baseline # {}

\* the chapter of the report meets the quality baseline of the command
MeetsBaseline ==
    QualityFailures(flow.files[flow.last.payload.chapter_file].text, flow.last.args)
        \cap Baseline = {}

\* auto_retry_actions records a repair of the quality
QualityRepairRecorded ==
    \E k \in 1..Len(flow.last.payload.auto_retry_actions) :
        flow.last.payload.auto_retry_actions[k].kind = "quality_repair"

\* C29: when continue-write with auto-retry enabled processes a non-draft
\* chapter that fails the quality baseline (minimum characters, paragraphs or
\* sentences), it applies a minimal quality repair that is recorded in
\* auto_retry_actions, and the run ends with ok = true and
\* gate_passed_final = true only with the chapter meeting the baseline.
C29_QualityBaselineRepair ==
    BelowBaseline =>
        /\ QualityRepairRecorded
        /\ (flow.last.payload.ok /\ flow.last.payload.gate_passed_final) => MeetsBaseline

-----------------------------------------------------------------------------
(* Properties of the two selections of retrieve *)

\* the smaller of two numbers
Smaller(m, n) == IF m < n THEN m ELSE n

\* the files of the first n entries of a ranking
FirstFiles(list, n) == [k \in 1..Smaller(n, Len(list)) |-> list[k].chapter_file]

\* the entries of a ranking that score above 0
Positive(list) == { k \in 1..Len(list) : list[k].s > 0 }

\* some file of chosen has score 0 in the ranking it was chosen from
HoldsZero(chosen, list) ==
    \E k \in 1..Len(list) : list[k].s = 0 /\ list[k].chapter_file \in SeqSet(chosen)

\* the fine stage: a candidate with score 0 is returned only if no candidate
\* scores positive, and then the first min(topK, pool size) are returned
FineFallback ==
    HoldsZero(lastq.cur.ranking.picked, lastq.cur.ranking.fine) =>
        /\ Positive(lastq.cur.ranking.fine) = {}
        /\ lastq.cur.ranking.picked
               = FirstFiles(lastq.cur.ranking.fine, lastq.cur.args.top_k)

\* a non-empty snapshot with positive candidateK and topK gives a result
NeverEmpty ==
    (index.docs # <<>> /\ lastq.cur.args.candidate_k > 0 /\ lastq.cur.args.top_k > 0) =>
        lastq.cur.result.retrieved # <<>>

HitStep == queries' = queries + 1 /\ lastq'.cur.ok /\ lastq'.cur.cache_hit

\* the entry of the cache file, as it was before the step, under the key of
\* the step's query
StoredEntry == CacheEntry(load_cache, CacheKey(lastq'.cur.args, index'))

\* C32: a query that hits the cache does not run the retrieval, leaves the
\* cache file as it was (the entry keeps its saved_at), and returns the
\* result the entry stores, reported with cache_hit = true.
C32_CacheHitShortCircuits ==
    [][HitStep => /\ ~lastq'.cur.ranking.ran
                  /\ ~lastq'.cur.cache_written
                  /\ cache' = cache /\ cache_form' = cache_form
                  /\ lastq'.cur.result = StoredEntry.result
                  /\ lastq'.cur.cache_hit]_vars

\* a hit on an entry that an earlier query of the same command line saved,
\* with the stored ranked list non-empty
C32_Witness ==
    /\ last.op = "query" /\ lastq.cur.ok /\ lastq.cur.cache_hit
    /\ lastq.prev.ran /\ lastq.prev.cache_written
    /\ lastq.cur.args = lastq.prev.args
    /\ lastq.cur.result.retrieved # <<>>
    /\ \E k \in 1..Len(cache) : cache[k].result = lastq.cur.result

(***************************************************************************)
(* Properties of split_passages                                            *)
(***************************************************************************)

\* C33: every passage that splitting a chapter's text gives is at most
\* PassageChars (360) characters long, also when a paragraph holds a single
\* sentence that is longer.
C33_PassageBudget ==
    passages.split => \A k \in 1..Len(passages.list) : Len(passages.list[k]) <= PassageChars

(***************************************************************************)
(* Properties of the reverse index                                         *)
(***************************************************************************)

\* the chapter files of the snapshot's documents whose stored entities hold e,
\* in the order of the documents
ChaptersNaming(e) ==
    LET naming == SelectSeq(index.docs, LAMBDA d : e \in SeqSet(d.entities))
    IN [k \in 1..Len(naming) |-> naming[k].chapter_file]

\* the list entity_chapter_map.json holds for e, empty when e is no key
ListFor(e) ==
    IF e \in DOMAIN entity_chapter_map.lists THEN entity_chapter_map.lists[e] ELSE <<>>

\* C34: right after a build, a chapter file is listed under an entity name in
\* entity_chapter_map.json exactly when the name is in the stored entities of
\* the file's document in the snapshot; each list is in the order of the
\* snapshot's documents and names no file twice; and every name of the
\* registry is a key, with an empty list when no chapter holds it.
C34_ReverseIndexConsistent ==
    Built =>
        /\ entity_chapter_map.exists
        /\ \A e \in AllNames \cup DOMAIN entity_chapter_map.lists :
               /\ ListFor(e) = ChaptersNaming(e)
               /\ Cardinality(SeqSet(ListFor(e))) = Len(ListFor(e))
        /\ registry \subseteq DOMAIN entity_chapter_map.lists

\* a build that listed two chapters under one name and left another name of
\* the registry with an empty list
C34_Witness ==
    /\ Built
    /\ \E e \in registry : Len(ListFor(e)) >= 2
    /\ \E e \in registry : e \in DOMAIN entity_chapter_map.lists /\ ListFor(e) = <<>>

(***************************************************************************)
(* Properties of the relation snippets                                     *)
(***************************************************************************)

\* the snippet holds a line that is the separator of a markdown table
HoldsSeparator(hit) ==
    \E k \in 1..Len(SplitLines(hit)) : IsTableSeparator(Strip(SplitLines(hit)[k]))

\* C35: a scan returns at most 8 snippets, no two of them with the same
\* normalized content, none of them holding the separator line of a markdown
\* table, and none at all when the query names no entity of the registry or
\* the tracker file is absent.
C35_RelationSnippets ==
    snippets.ran =>
        /\ Len(snippets.hits) <= RelationMaxHits
        /\ \A i, j \in 1..Len(snippets.hits) :
               i # j => NormalizedLines(snippets.hits[i]) # NormalizedLines(snippets.hits[j])
        /\ \A k \in 1..Len(snippets.hits) : ~HoldsSeparator(snippets.hits[k])
        /\ (snippets.terms = <<>> \/ ~snippets.tracker.exists) => snippets.hits = <<>>

(***************************************************************************)
(* Properties of a query over a snapshot that lists a deleted chapter      *)
(***************************************************************************)

\* the last step was a query without --auto-build that read a snapshot listing
\* a chapter whose file is gone
QueriedStaleSnapshot ==
    /\ last.op = "query" /\ lastq.cur.ran
    /\ ~lastq.cur.args.auto_build
    /\ \E k \in 1..Len(lastq.cur.docs_used) :
           lastq.cur.docs_used[k].chapter_file \notin Present

\* C36: a query without --auto-build over a snapshot that still lists a
\* chapter whose file has been deleted completes with exit status 0.
C36_QueryAfterChapterDeleted == QueriedStaleSnapshot => lastq.cur.ok

(***************************************************************************)
(* Properties of the sidecar files                                         *)
(***************************************************************************)

\* the sidecar file the document names holds the document's fields
SidecarAgrees(d) ==
    /\ d.meta_file \in Slugs
    /\ sidecars[d.meta_file].exists
    /\ sidecars[d.meta_file].summary = d.summary
    /\ sidecars[d.meta_file].keywords = d.keywords
    /\ sidecars[d.meta_file].entities = d.entities
    /\ sidecars[d.meta_file].mtime = d.mtime
    /\ sidecars[d.meta_file].chapter_no = d.chapter_no

\* C37: right after a build, the sidecar of every chapter the build rebuilt
\* holds the summary, the keywords, the entities, the mtime and the chapter
\* number that the chapter's document in the snapshot holds (the events, the
\* locations, the foreshadowing references and the conflict level are empty
\* or "unknown" in both for the texts of the model).
C37_SidecarAgreesWithSnapshot ==
    Built => \A k \in 1..Len(index.docs) :
                index.docs[k].chapter_file \in last.rebuilt_files => SidecarAgrees(index.docs[k])

(***************************************************************************)
(* Properties of the snapshot's accounting                                 *)
(***************************************************************************)

\* the number of documents the snapshot holds for a chapter file
DocsFor(f) == Cardinality({ k \in 1..Len(index.docs) : index.docs[k].chapter_file = f })

\* C38: right after a build, the snapshot holds exactly one document for each
\* .md file of the manuscript directory and none for any other file, and
\* chapter_count = the number of documents = reused_docs + rebuilt_docs.
C38_SnapshotAccounting ==
    Built =>
        /\ \A f \in Present : DocsFor(f) = 1
        /\ \A k \in 1..Len(index.docs) : index.docs[k].chapter_file \in Present
        /\ index.chapter_count = Len(index.docs)
        /\ index.chapter_count = index.reused_docs + index.rebuilt_docs

\* an incremental build that reused a document, rebuilt another and dropped
\* the document of a chapter whose file had been deleted
C38_Witness ==
    /\ Built /\ last.incremental
    /\ index.reused_docs >= 1 /\ index.rebuilt_docs >= 1
    /\ \E k \in 1..Len(last.old_index.docs) :
           /\ last.old_index.docs[k].dict
           /\ last.old_index.docs[k].chapter_file \in ChapterFiles \ Present

(***************************************************************************)
(* Properties of the entry a miss writes                                   *)
(***************************************************************************)

\* the last step was a query that missed the cache and wrote the cache file
WroteCache == last.op = "query" /\ lastq.cur.ok /\ lastq.cur.cache_written

\* C39: right after a query that missed has written the cache file, the file
\* holds the entry of that query, also when the file held max_entries entries
\* before and when other entries have the same saved_at, so that the same
\* query run again at once is a hit.
C39_NewestEntrySurvives ==
    WroteCache => CacheHit(cache, CacheKey(lastq.cur.args, index))

(***************************************************************************)
(* Properties of the files a query leaves alone                            *)
(***************************************************************************)

\* the step is a query without --auto-build that finds story_index.json
QueryWithoutBuild ==
    /\ queries' = queries + 1
    /\ index.exists
    /\ ~lastq'.cur.args.auto_build

\* C40: a query that does not build (story_index.json exists and --auto-build
\* is not given) leaves the snapshot, entity_chapter_map.json, every sidecar
\* and every chapter file as they were, whether it is skipped, hits the cache
\* or misses it; of the files of the model it writes the query cache only,
\* and that only on a miss with caching enabled.
C40_QueryFrame ==
    [][QueryWithoutBuild =>
          /\ index' = index
          /\ entity_chapter_map' = entity_chapter_map
          /\ sidecars' = sidecars
          /\ chapters' = chapters
          /\ registry' = registry
          /\ (cache' # cache \/ cache_form' # cache_form) =>
                 (/\ lastq'.cur.args.use_cache
                  /\ ~lastq'.cur.cache_hit /\ ~lastq'.cur.skipped)]_vars

\* a query that missed and wrote the cache right after a query that was
\* skipped, on a snapshot older than the last edit of the project
C40_Witness ==
    /\ last.op = "query" /\ lastq.consecutive
    /\ lastq.prev.ok /\ lastq.prev.skipped
    /\ lastq.cur.ok /\ ~lastq.cur.args.auto_build /\ lastq.cur.cache_written
    /\ index.exists
    /\ built.valid /\ (built.chapters # chapters \/ built.registry # registry)

====
